---- MODULE Spec2Model ----
(***************************************************************************)
(* A model of the Million Dollar Homepage analytics dashboard:             *)
(*   - the zustand store (stores/appStore): registry, fuzzy index, query,  *)
(*     filters, results, highlight set, selection;                         *)
(*   - the export component's choice of the data to export;                *)
(*   - the InteractiveMap overlay: the two render layers and their keys;   *)
(*   - the dataset loader of App.tsx: attempts, backoff timers, manual     *)
(*     retry and the browser's online/offline events.                      *)
(*                                                                         *)
(* JavaScript values whose type varies (undefined, null, string, number,   *)
(* boolean) are tagged records, so that === is TLA+ equality.  Text that   *)
(* is trimmed, lower-cased or matched by prefix (domains, titles, queries) *)
(* is a sequence of one-character strings.                                 *)
(***************************************************************************)
EXTENDS Integers, Sequences, FiniteSets, TLC

VARIABLES
    \* the store (stores/appStore)
    appData, fuse, domainMap, query, results, filters, selectedDomain,
    highlightedAreas,
    \* ExportData component
    onlyFiltered, showOptions,
    \* InteractiveMap component
    htmlMapAreas, imageLoaded, imageError,
    \* App component: its state, navigator.onLine, whether its effects have
    \* run, the requests in flight and the backoff timers pending (per
    \* attempt number), and the record of the run that began at mount
    loading, error, retryCount, isOnline, navigatorOnLine, mounted, fetches,
    timers, outcomes, delays, interfered,
    \* the last call made on the store: its name and argument
    lastCall,
    \* InteractiveMap's tooltip state, the animation frame callback pending
    \* (the event it holds), window.innerWidth and innerHeight, the page reload
    \* timer pending, the pointer event the tooltip position was computed
    \* from, and the last pointer event a handler received
    tooltip, animationFrame, viewport, reloadTimer, placedFor, lastPointer,
    \* SearchBox component
    localFilters, sortBy, sortDirection,
    \* a coords attribute and the rectangles parsed from it
    coordsAttr, rectangles,
    \* useDebounce: the value passed in, the value returned, the timer pending
    \* (the value it holds) and the number of changes of the value so far
    inputValue, debouncedValue, handler, changes,
    \* createDebouncedSearch: the arguments of the last call, the timer
    \* pending (the arguments it holds), the calls of searchFn made, and the
    \* number of calls of the debounced function so far
    lastArgs, timeoutId, searched, calls,
    \* useAsyncOperation: the hook's state, the operations awaited, and the
    \* abort timers, progress intervals and progress-clearing timers running
    state, operations, abortTimers, progressIntervals, clearTimers

storeVars == <<appData, fuse, domainMap, query, results, filters,
               selectedDomain, highlightedAreas>>
exportVars == <<onlyFiltered, showOptions>>
mapVars == <<htmlMapAreas, imageLoaded, imageError>>
loaderVars == <<loading, error, retryCount, isOnline, navigatorOnLine, mounted,
                fetches, timers, outcomes, delays, interfered>>
pointerVars == <<tooltip, animationFrame, viewport, reloadTimer, placedFor,
                 lastPointer>>
searchBoxVars == <<localFilters, sortBy, sortDirection>>
quadVars == <<coordsAttr, rectangles>>
debounceVars == <<inputValue, debouncedValue, handler, changes,
                  lastArgs, timeoutId, searched, calls>>
asyncVars == <<state, operations, abortTimers, progressIntervals, clearTimers>>
utilVars == <<searchBoxVars, quadVars, debounceVars, asyncVars>>
vars == <<storeVars, exportVars, mapVars, loaderVars, lastCall, pointerVars,
         utilVars>>

---------------------------------------------------------------------------
(* JavaScript values *)

Undefined == [undefined |-> TRUE]
Null == [null |-> TRUE]
Absent == [absent |-> TRUE]      \* an own property that does not exist
Str(s) == [str |-> s]
Num(n) == [num |-> n]
Bool(b) == [bool |-> b]
Text(chars) == [text |-> chars]
IsoDate(day) == [iso |-> day]    \* an ISO-8601 date string, by its day number
List(seq) == [list |-> seq]

\* obj[key] of an object whose own properties are the keys not mapped to Absent
Get(obj, key) == IF obj[key] = Absent THEN Undefined ELSE obj[key]

\* obj?.key
OptGet(obj, key) == IF obj \in {Null, Undefined} THEN Undefined ELSE Get(obj, key)

\* JavaScript truthiness
Truthy(v) ==
    CASE v \in {Undefined, Null, Absent} -> FALSE
      [] "bool" \in DOMAIN v -> v.bool
      [] "num" \in DOMAIN v -> v.num # 0
      [] "str" \in DOMAIN v -> v.str # ""
      [] "text" \in DOMAIN v -> v.text # <<>>
      [] OTHER -> TRUE

---------------------------------------------------------------------------
(* Text *)

toLowerCaseChar(c) ==
    CASE c = "A" -> "a"
      [] c = "B" -> "b"
      [] c = "Z" -> "z"
      [] OTHER -> c

toLowerCase(s) == [i \in 1..Len(s) |-> toLowerCaseChar(s[i])]

RECURSIVE trimStart(_)
trimStart(s) == IF s # <<>> /\ Head(s) = " " THEN trimStart(Tail(s)) ELSE s

RECURSIVE trimEnd(_)
trimEnd(s) ==
    IF s # <<>> /\ s[Len(s)] = " " THEN trimEnd(SubSeq(s, 1, Len(s) - 1)) ELSE s

trim(s) == trimEnd(trimStart(s))

startsWith(s, prefix) ==
    Len(prefix) <= Len(s) /\ SubSeq(s, 1, Len(prefix)) = prefix

\* s contains pattern as a contiguous run
includes(s, pattern) ==
    \E i \in 0..(Len(s) - Len(pattern)) : SubSeq(s, i + 1, i + Len(pattern)) = pattern

\* Array.prototype.slice(0, n)
slice0(seq, n) == SubSeq(seq, 1, IF Len(seq) < n THEN Len(seq) ELSE n)

---------------------------------------------------------------------------
(* Bounds *)

\* the longest dataset (number of areas) the loader delivers
MaxAreas == 3

\* the most requests and backoff timers outstanding at once
MaxPending == 2
\* the changes of the debounced value, and the calls of the debounced search
MaxInputs == 2
\* the timers of one kind useAsyncOperation has running in the runs explored
MaxTimers == 2

\* the most keys set in a filter object
MaxFilterKeys == 2

(* SEARCH_LIMIT is 1000 in the source (line 24).  Here it is a bound of   *)
(* the model, scaled down so that datasets longer than the cap exist       *)
(* within MaxAreas; every formula below is stated in terms of SEARCH_LIMIT, *)
(* not of its value.                                                       *)
SEARCH_LIMIT == 2

(* Program constants *)
MIN_MATCH_CHAR_LENGTH == 2
ORIGINAL_WIDTH == 1000
ORIGINAL_HEIGHT == 1000

---------------------------------------------------------------------------
(* Areas and datasets (types: AreaData, DomainAnalytics, AppData) *)

AnalyticsKeys ==
    {"dns_status", "http_status", "whois_status", "registered_at", "nameservers"}

NoFields == [k \in AnalyticsKeys |-> Absent]

Rect(x, y, w, h) == [x |-> x, y |-> y, width |-> w, height |-> h]

AreaFull ==
    [id |-> 1, domain |-> <<"a", "b">>, title |-> <<"A", "b">>,
     coordinates |-> Rect(0, 0, 10, 10),
     analytics |-> [dns_status |-> Str("NOERROR"), http_status |-> Num(200),
                    whois_status |-> Str("registered"),
                    registered_at |-> IsoDate(5),
                    nameservers |-> List(<<"ns1">>)],
     hasAnalytics |-> TRUE]

\* analytics is null; the rectangle exceeds the 1000 bound
AreaBare ==
    [id |-> 2, domain |-> <<"b">>, title |-> <<>>,
     coordinates |-> Rect(990, 990, 50, 50),
     analytics |-> Null, hasAnalytics |-> FALSE]

\* shares its domain with AreaFull; analytics lacks every field but dns_status
AreaPartial ==
    [id |-> 3, domain |-> <<"a", "b">>, title |-> <<"b", "a", "b">>,
     coordinates |-> Rect(10, 0, 10, 10),
     analytics |-> [NoFields EXCEPT !["dns_status"] = Str("NXDOMAIN")],
     hasAnalytics |-> TRUE]

AreaPool == {AreaFull, AreaBare, AreaPartial}

MakeAppData(areas) ==
    [areas |-> areas, metadata |-> [totalAreas |-> Num(Len(areas))]]

IsInjective(seq) == \A i, j \in DOMAIN seq : seq[i] = seq[j] => i = j

\* the valid documents: every non-empty list of distinct areas up to MaxAreas
AreaLists ==
    {areas \in UNION {[1..n -> AreaPool] : n \in 1..MaxAreas} : IsInjective(areas)}

Datasets == {MakeAppData(areas) : areas \in AreaLists}

Domains == {a.domain : a \in AreaPool}

---------------------------------------------------------------------------
(* Filters (types: SearchFilters, AdvancedFilters) *)

FilterKeys ==
    {"dnsStatus", "httpStatus", "whoisStatus", "hasAnalytics", "domainLength",
     "dateRange", "hasNameservers", "sortBy", "sortDirection"}

\* {}
NoFilters == [k \in FilterKeys |-> Absent]

\* { ...base, [key]: value }
WithKey(base, key, value) == [base EXCEPT ![key] = value]

\* Object.keys(filters)
ObjectKeys(obj) == {k \in DOMAIN obj : obj[k] # Absent}

\* Number.prototype.toString for a non-negative integer
RECURSIVE numberToString(_)
numberToString(n) ==
    LET digit(d) == CASE d = 0 -> "0" [] d = 1 -> "1" [] d = 2 -> "2"
                      [] d = 3 -> "3" [] d = 4 -> "4" [] d = 5 -> "5"
                      [] d = 6 -> "6" [] d = 7 -> "7" [] d = 8 -> "8"
                      [] OTHER -> "9"
    IN IF n < 10 THEN <<digit(n)>>
       ELSE Append(numberToString(n \div 10), digit(n % 10))

\* value?.toString()
OptToString(v) ==
    IF v \in {Undefined, Null} THEN Undefined ELSE Text(numberToString(v.num))

\* value ? new Date(value) : null
OptDate(v) == IF Truthy(v) THEN v ELSE Null

\* function applyFilters: the predicate of line 190
dnsStatusCondition(area, fs) ==
    OptGet(area.analytics, "dns_status") = Get(fs, "dnsStatus")

\* line 194
httpStatusCondition(area, fs) ==
    OptToString(OptGet(area.analytics, "http_status")) = Get(fs, "httpStatus")

\* line 198
whoisStatusCondition(area, fs) ==
    OptGet(area.analytics, "whois_status") = Get(fs, "whoisStatus")

\* line 202
hasAnalyticsCondition(area, fs) ==
    Bool(area.hasAnalytics) = Get(fs, "hasAnalytics")

\* the bounds taken as exclusive: domainLength > min, domainLength < max
domainLengthCondition_Exclusive(area, fs) ==
    LET dl == Get(fs, "domainLength")
    IN IF ~Truthy(dl) THEN TRUE
       ELSE IF dl.min = Undefined /\ dl.max = Undefined THEN TRUE
       ELSE /\ (dl.min = Undefined \/ Len(area.domain) > dl.min.num)
            /\ (dl.max = Undefined \/ Len(area.domain) < dl.max.num)

\* lines 209-218; TRUE when no condition is pushed
domainLengthCondition(area, fs) ==
    LET dl == Get(fs, "domainLength")
    IN IF ~Truthy(dl) THEN TRUE
       ELSE IF dl.min = Undefined /\ dl.max = Undefined THEN TRUE
       ELSE /\ (dl.min = Undefined \/ Len(area.domain) >= dl.min.num)
            /\ (dl.max = Undefined \/ Len(area.domain) <= dl.max.num)

\* lines 221-231; TRUE when no condition is pushed
dateRangeCondition(area, fs) ==
    LET dr == Get(fs, "dateRange")
    IN IF ~Truthy(dr) THEN TRUE
       ELSE IF ~(Truthy(dr.start) \/ Truthy(dr.end)) THEN TRUE
       ELSE LET startDate == OptDate(dr.start)
                endDate == OptDate(dr.end)
                registered == OptGet(area.analytics, "registered_at")
            IN IF ~Truthy(registered) THEN FALSE
               ELSE /\ (startDate = Null \/ registered.iso >= startDate.iso)
                    /\ (endDate = Null \/ registered.iso <= endDate.iso)

\* lines 234-239
hasNameserversCondition(area, fs) ==
    LET ns == OptGet(area.analytics, "nameservers")
        hasNameservers == Truthy(ns) /\ Len(ns.list) > 0
    IN IF Truthy(Get(fs, "hasNameservers")) THEN hasNameservers
       ELSE ~hasNameservers

\* filterConditions.some(condition => condition(area)): any one condition
\* admits the area
passesFilters_Some(area, fs) ==
    \/ (Get(fs, "dnsStatus") # Undefined /\ dnsStatusCondition(area, fs))
    \/ (Get(fs, "httpStatus") # Undefined /\ httpStatusCondition(area, fs))
    \/ (Get(fs, "whoisStatus") # Undefined /\ whoisStatusCondition(area, fs))
    \/ (Get(fs, "hasAnalytics") # Undefined /\ hasAnalyticsCondition(area, fs))
    \/ LET dl == Get(fs, "domainLength")
       IN /\ Truthy(dl)
          /\ (dl.min # Undefined \/ dl.max # Undefined)
          /\ domainLengthCondition(area, fs)
    \/ LET dr == Get(fs, "dateRange")
       IN /\ Truthy(dr)
          /\ (Truthy(dr.start) \/ Truthy(dr.end))
          /\ dateRangeCondition(area, fs)
    \/ (Get(fs, "hasNameservers") # Undefined /\ hasNameserversCondition(area, fs))

\* filterConditions.every(condition => condition(area))
passesFilters(area, fs) ==
    /\ (Get(fs, "dnsStatus") # Undefined => dnsStatusCondition(area, fs))
    /\ (Get(fs, "httpStatus") # Undefined => httpStatusCondition(area, fs))
    /\ (Get(fs, "whoisStatus") # Undefined => whoisStatusCondition(area, fs))
    /\ (Get(fs, "hasAnalytics") # Undefined => hasAnalyticsCondition(area, fs))
    /\ domainLengthCondition(area, fs)
    /\ dateRangeCondition(area, fs)
    /\ (Get(fs, "hasNameservers") # Undefined => hasNameserversCondition(area, fs))

\* lines 177-179
hasFilters(fs) ==
    /\ ObjectKeys(fs) # {}
    /\ \E k \in ObjectKeys(fs) : fs[k] \notin {Undefined, Null}

applyFilters(areas, fs) ==
    IF ~hasFilters(fs) THEN areas
    ELSE LET keep(area) == passesFilters(area, fs) IN SelectSeq(areas, keep)

---------------------------------------------------------------------------
(* The fuzzy index (fuse.js, configured at setAppData).                    *)
(*                                                                         *)
(* With threshold 0.3 and ignoreLocation, a pattern of fewer than four     *)
(* characters admits no edit error (1/3 > 0.3), so a key matches exactly   *)
(* when it contains the pattern, case-insensitively.  A key equal to the   *)
(* pattern scores Number.EPSILON, a key containing it scores 0.001; an     *)
(* item's score is the product over its matching keys of                   *)
(* score^(weight * norm), with norm = 1 for a one-word field.  The model   *)
(* keeps -log(score), scaled to integers: the larger, the better.          *)
(***************************************************************************)

keyRelevance(text, pattern) ==
    LET t == toLowerCase(text)
        p == toLowerCase(pattern)
    IN IF t = p THEN 360
       ELSE IF includes(t, p) THEN 69
       ELSE 0

\* weights: domain 0.7, title 0.3
relevance(area, pattern) ==
    7 * keyRelevance(area.domain, pattern) + 3 * keyRelevance(area.title, pattern)

\* the indices of docs that match, best first, ties by index
RECURSIVE rankedIndices(_, _, _)
rankedIndices(docs, pattern, left) ==
    IF left = {} THEN <<>>
    ELSE LET best == CHOOSE i \in left : \A j \in left :
                        \/ relevance(docs[i], pattern) > relevance(docs[j], pattern)
                        \/ /\ relevance(docs[i], pattern) = relevance(docs[j], pattern)
                           /\ i <= j
         IN <<best>> \o rankedIndices(docs, pattern, left \ {best})

\* fuse.search(pattern, { limit }).map(result => result.item)
fuseSearch(index, pattern, limit) ==
    LET docs == index.docs
        hits == {i \in DOMAIN docs : relevance(docs[i], pattern) > 0}
        order == rankedIndices(docs, pattern, hits)
    IN slice0([k \in DOMAIN order |-> docs[order[k]]], limit)

---------------------------------------------------------------------------
(* The store: stores/appStore *)

\* lines 43-46: later entries overwrite earlier ones
buildDomainMap(areas) ==
    [d \in {areas[i].domain : i \in DOMAIN areas} |->
        areas[CHOOSE i \in DOMAIN areas :
                /\ areas[i].domain = d
                /\ \A j \in DOMAIN areas : areas[j].domain = d => j <= i]]

\* searchCandidates matching a one-character query anywhere in the text
searchCandidates_Anywhere(index, data, q) ==
    LET trimmedQuery == trim(q)
    IN IF trimmedQuery # <<>> /\ Len(trimmedQuery) >= MIN_MATCH_CHAR_LENGTH
       THEN fuseSearch(index, trimmedQuery, SEARCH_LIMIT)
       ELSE IF Len(trimmedQuery) > 0 /\ Len(trimmedQuery) < MIN_MATCH_CHAR_LENGTH
       THEN LET isInside(area) ==
                    \/ includes(toLowerCase(area.domain), toLowerCase(trimmedQuery))
                    \/ includes(toLowerCase(area.title), toLowerCase(trimmedQuery))
            IN slice0(SelectSeq(data.areas, isInside), SEARCH_LIMIT)
       ELSE slice0(data.areas, SEARCH_LIMIT)

\* searchCandidates returning the fuzzy matches in registry order
searchCandidates_RegistryOrder(index, data, q) ==
    LET trimmedQuery == trim(q)
    IN IF trimmedQuery # <<>> /\ Len(trimmedQuery) >= MIN_MATCH_CHAR_LENGTH
       THEN LET isHit(area) == relevance(area, trimmedQuery) > 0
            IN slice0(SelectSeq(data.areas, isHit), SEARCH_LIMIT)
       ELSE IF Len(trimmedQuery) > 0 /\ Len(trimmedQuery) < MIN_MATCH_CHAR_LENGTH
       THEN LET isPrefix(area) ==
                    \/ startsWith(toLowerCase(area.domain), toLowerCase(trimmedQuery))
                    \/ startsWith(toLowerCase(area.title), toLowerCase(trimmedQuery))
            IN slice0(SelectSeq(data.areas, isPrefix), SEARCH_LIMIT)
       ELSE slice0(data.areas, SEARCH_LIMIT)

\* searchCandidates without the cap on the empty query
searchCandidates_NoCap(index, data, q) ==
    LET trimmedQuery == trim(q)
    IN IF trimmedQuery # <<>> /\ Len(trimmedQuery) >= MIN_MATCH_CHAR_LENGTH
       THEN fuseSearch(index, trimmedQuery, SEARCH_LIMIT)
       ELSE IF Len(trimmedQuery) > 0 /\ Len(trimmedQuery) < MIN_MATCH_CHAR_LENGTH
       THEN LET isPrefix(area) ==
                    \/ startsWith(toLowerCase(area.domain), toLowerCase(trimmedQuery))
                    \/ startsWith(toLowerCase(area.title), toLowerCase(trimmedQuery))
            IN slice0(SelectSeq(data.areas, isPrefix), SEARCH_LIMIT)
       ELSE data.areas

\* lines 79-95 (and 119-132): the candidates of the text query
searchCandidates(index, data, q) ==
    LET trimmedQuery == trim(q)
    IN IF trimmedQuery # <<>> /\ Len(trimmedQuery) >= MIN_MATCH_CHAR_LENGTH
       THEN fuseSearch(index, trimmedQuery, SEARCH_LIMIT)
       ELSE IF Len(trimmedQuery) > 0 /\ Len(trimmedQuery) < MIN_MATCH_CHAR_LENGTH
       THEN LET isPrefix(area) ==
                    \/ startsWith(toLowerCase(area.domain), toLowerCase(trimmedQuery))
                    \/ startsWith(toLowerCase(area.title), toLowerCase(trimmedQuery))
            IN slice0(SelectSeq(data.areas, isPrefix), SEARCH_LIMIT)
       ELSE slice0(data.areas, SEARCH_LIMIT)

RECURSIVE dedupe(_)
\* Array.from(new Set(seq)): first occurrences, in order
dedupe(seq) ==
    IF seq = <<>> THEN <<>>
    ELSE LET init == dedupe(SubSeq(seq, 1, Len(seq) - 1))
             last == seq[Len(seq)]
         IN IF \E i \in DOMAIN init : init[i] = last THEN init ELSE Append(init, last)

\* lines 101, 138
extractDomains(areas) == dedupe([i \in DOMAIN areas |-> areas[i].domain])

\* setAppData building the indexes only when there are none yet
setAppData_IndexOnce(data) ==
    /\ appData' = data
    /\ fuse' = IF fuse = Null THEN [docs |-> data.areas] ELSE fuse
    /\ domainMap' = IF domainMap = Null THEN [map |-> buildDomainMap(data.areas)]
                    ELSE domainMap
    /\ UNCHANGED <<query, results, filters, selectedDomain, highlightedAreas>>

setAppData(data) ==
    /\ appData' = data
    /\ fuse' = [docs |-> data.areas]
    /\ domainMap' = [map |-> buildDomainMap(data.areas)]
    /\ UNCHANGED <<query, results, filters, selectedDomain, highlightedAreas>>

\* setSearchQuery adding the domains found to the highlights it finds
setSearchQuery_Accumulating(q) ==
    IF fuse = Null \/ appData = Null
    THEN /\ query' = q
         /\ results' = <<>>
         /\ highlightedAreas' = <<>>
         /\ UNCHANGED <<appData, fuse, domainMap, filters, selectedDomain>>
    ELSE LET found == applyFilters(searchCandidates(fuse, appData, q), filters)
         IN /\ query' = q
            /\ results' = found
            /\ highlightedAreas' = highlightedAreas \o extractDomains(found)
            /\ UNCHANGED <<appData, fuse, domainMap, filters, selectedDomain>>

\* lines 70-108
setSearchQuery(q) ==
    IF fuse = Null \/ appData = Null
    THEN /\ query' = q
         /\ results' = <<>>
         /\ highlightedAreas' = <<>>
         /\ UNCHANGED <<appData, fuse, domainMap, filters, selectedDomain>>
    ELSE LET found == applyFilters(searchCandidates(fuse, appData, q), filters)
         IN /\ query' = q
            /\ results' = found
            /\ highlightedAreas' = extractDomains(found)
            /\ UNCHANGED <<appData, fuse, domainMap, filters, selectedDomain>>

setFilters(fs) ==
    IF fuse = Null \/ appData = Null
    THEN /\ filters' = fs
         /\ UNCHANGED <<appData, fuse, domainMap, query, results, selectedDomain,
                        highlightedAreas>>
    ELSE LET found == applyFilters(searchCandidates(fuse, appData, query), fs)
         IN /\ filters' = fs
            /\ results' = found
            /\ highlightedAreas' = extractDomains(found)
            /\ UNCHANGED <<appData, fuse, domainMap, query, selectedDomain>>

setSelectedDomain(domain) ==
    /\ selectedDomain' = domain
    /\ UNCHANGED <<appData, fuse, domainMap, query, results, filters,
                   highlightedAreas>>

clearSearch ==
    /\ query' = <<>>
    /\ results' = <<>>
    /\ filters' = NoFilters
    /\ selectedDomain' = Null
    /\ highlightedAreas' = <<>>
    /\ UNCHANGED <<appData, fuse, domainMap>>

highlightDomain(domain) ==
    /\ ~(\E i \in DOMAIN highlightedAreas : highlightedAreas[i] = domain)
    /\ highlightedAreas' = Append(highlightedAreas, domain)
    /\ UNCHANGED <<appData, fuse, domainMap, query, results, filters,
                   selectedDomain>>

clearHighlights ==
    /\ highlightedAreas' = <<>>
    /\ UNCHANGED <<appData, fuse, domainMap, query, results, filters,
                   selectedDomain>>

StoreInit ==
    /\ appData = Null
    /\ fuse = Null
    /\ domainMap = Null
    /\ query = <<>>
    /\ results = <<>>
    /\ filters = NoFilters
    /\ selectedDomain = Null
    /\ highlightedAreas = <<>>

---------------------------------------------------------------------------
(* ExportData component *)

\* lines 28-33
getDataToExport ==
    IF onlyFiltered /\ Len(results) > 0 THEN results
    ELSE IF appData # Null THEN appData.areas ELSE <<>>

\* the "Export Data" button, rendered once appData is there (line 223)
toggleOptions ==
    /\ appData # Null
    /\ showOptions' = ~showOptions
    /\ UNCHANGED <<storeVars, mapVars, loaderVars, lastCall, utilVars, pointerVars,
                   onlyFiltered>>

\* the "only filtered" checkbox of the options panel
toggleOnlyFiltered ==
    /\ appData # Null /\ showOptions
    /\ onlyFiltered' = ~onlyFiltered
    /\ UNCHANGED <<storeVars, mapVars, loaderVars, lastCall, utilVars, pointerVars,
                   showOptions>>

\* lines 172-220: serialises getDataToExport() and closes the panel
handleExport ==
    /\ appData # Null /\ showOptions
    /\ showOptions' = FALSE
    /\ UNCHANGED <<storeVars, mapVars, loaderVars, lastCall, utilVars, pointerVars,
                   onlyFiltered>>

ExportInit ==
    /\ onlyFiltered = TRUE
    /\ showOptions = FALSE

---------------------------------------------------------------------------
(* InteractiveMap component *)

NaN == [nan |-> TRUE]

\* String.prototype.split(sep) for a one-character separator
RECURSIVE split(_, _)
split(s, sep) ==
    IF \A i \in DOMAIN s : s[i] # sep THEN <<s>>
    ELSE LET at == CHOOSE i \in DOMAIN s : s[i] = sep /\ \A j \in 1..(i - 1) : s[j] # sep
         IN <<SubSeq(s, 1, at - 1)>> \o split(SubSeq(s, at + 1, Len(s)), sep)

Digits == {"0", "1", "2", "3", "4", "5", "6", "7", "8", "9"}

digitValue(c) ==
    CASE c = "0" -> 0 [] c = "1" -> 1 [] c = "2" -> 2 [] c = "3" -> 3
      [] c = "4" -> 4 [] c = "5" -> 5 [] c = "6" -> 6 [] c = "7" -> 7
      [] c = "8" -> 8 [] OTHER -> 9

RECURSIVE digitsValue(_)
digitsValue(ds) ==
    IF ds = <<>> THEN 0
    ELSE 10 * digitsValue(SubSeq(ds, 1, Len(ds) - 1)) + digitValue(ds[Len(ds)])

\* Number(token) for decimal integer tokens: white space is trimmed, the
\* empty string is 0, anything else that is not [+-]digits is NaN
toNumber(token) ==
    LET t == trim(token)
        signed == t # <<>> /\ Head(t) \in {"-", "+"}
        ds == IF signed THEN Tail(t) ELSE t
    IN IF t = <<>> THEN Num(0)
       ELSE IF ds = <<>> \/ \E i \in DOMAIN ds : ds[i] \notin Digits THEN NaN
       ELSE IF signed /\ Head(t) = "-" THEN Num(0 - digitsValue(ds))
       ELSE Num(digitsValue(ds))

Min(a, b) == IF a <= b THEN a ELSE b
Abs(a) == IF a < 0 THEN 0 - a ELSE a

\* 'coords' in area
isHtmlArea(area) == "coords" \in DOMAIN area

\* lines 297-299 (and 425-427, 485-487); index counts from 0
uniqueKey(area, index) ==
    IF isHtmlArea(area)
    THEN <<"html", area.domain, area.coords, index>>
    ELSE <<"area", IF area.id # 0 THEN area.id ELSE index, area.domain>>

\* lines 266-268
areasToRender ==
    IF Len(htmlMapAreas) > 0 THEN htmlMapAreas
    ELSE IF appData # Null THEN appData.areas ELSE <<>>

\* lines 301-325: the rectangle stored for one area, or Null
parseAreaCoordinates(area) ==
    IF isHtmlArea(area)
    THEN LET tokens == split(area.coords, ",")
             coords == [i \in DOMAIN tokens |-> toNumber(tokens[i])]
         IN IF Len(coords) = 4 /\ \A i \in DOMAIN coords : coords[i] # NaN
            THEN LET x == Min(coords[1].num, coords[3].num)
                     y == Min(coords[2].num, coords[4].num)
                     width == Abs(coords[3].num - coords[1].num)
                     height == Abs(coords[4].num - coords[2].num)
                 IN IF /\ x >= 0 /\ y >= 0
                       /\ x + width <= ORIGINAL_WIDTH
                       /\ y + height <= ORIGINAL_HEIGHT
                       /\ width > 0 /\ height > 0
                    THEN Rect(x, y, width, height)
                    ELSE Null
            ELSE Null
    ELSE Rect(area.coordinates.x, area.coordinates.y,
              area.coordinates.width, area.coordinates.height)

\* lines 291-330: a Map from key to rectangle; a later set overwrites
parsedCoordinates ==
    LET areas == areasToRender
        keys == {uniqueKey(areas[i], i - 1) : i \in DOMAIN areas}
    IN [k \in keys |->
          parseAreaCoordinates(
              areas[CHOOSE i \in DOMAIN areas :
                      /\ uniqueKey(areas[i], i - 1) = k
                      /\ \A j \in DOMAIN areas : uniqueKey(areas[j], j - 1) = k => j <= i])]

\* Map.prototype.get
mapGet(map, key) == IF key \in DOMAIN map THEN map[key] ELSE Undefined

\* lines 255-257
isHighlighted(domain) ==
    \/ \E i \in DOMAIN highlightedAreas : highlightedAreas[i] = domain
    \/ selectedDomain = Text(domain)

\* lines 271-288, as the positions in areasToRender of each layer's areas
RECURSIVE indicesWhere(_, _, _)
indicesWhere(areas, from, wanted) ==
    IF from > Len(areas) THEN <<>>
    ELSE (IF isHighlighted(areas[from].domain) = wanted THEN <<from>> ELSE <<>>)
         \o indicesWhere(areas, from + 1, wanted)

highlightedAreasToRender == indicesWhere(areasToRender, 1, TRUE)

nonHighlightedAreas == indicesWhere(areasToRender, 1, FALSE)

\* lines 422-467 and 482-510: one layer's elements, Null where the callback
\* returns null; source is the area's position in areasToRender
renderLayer(layer) ==
    [p \in DOMAIN layer |->
        LET area == areasToRender[layer[p]]
            coords == mapGet(parsedCoordinates, uniqueKey(area, p - 1))
        IN IF coords \in {Undefined, Null} THEN Null
           ELSE [source |-> layer[p], domain |-> area.domain, rect |-> coords]]

NoOverlay == [overlay |-> FALSE]

\* lines 243-252 and 405-513
render ==
    IF appData = Null \/ ~(imageLoaded /\ ~imageError) THEN NoOverlay
    ELSE [overlay |-> TRUE,
          svg |-> renderLayer(highlightedAreasToRender),
          div |-> renderLayer(nonHighlightedAreas)]

\* lines 75-99: the map resource arrived
setHtmlMapAreas(parsedAreas) ==
    /\ htmlMapAreas = <<>>
    /\ htmlMapAreas' = parsedAreas
    /\ UNCHANGED <<storeVars, exportVars, loaderVars, lastCall, utilVars, pointerVars,
                   imageLoaded, imageError>>

\* lines 368-370
onLoad ==
    /\ ~imageLoaded
    /\ imageLoaded' = TRUE
    /\ UNCHANGED <<storeVars, exportVars, loaderVars, lastCall, utilVars, pointerVars,
                   htmlMapAreas, imageError>>

\* lines 371-374
onError ==
    /\ ~imageLoaded
    /\ imageError' = TRUE
    /\ imageLoaded' = TRUE
    /\ UNCHANGED <<storeVars, exportVars, loaderVars, lastCall, utilVars, pointerVars,
                   htmlMapAreas>>

MapInit ==
    /\ htmlMapAreas = <<>>
    /\ imageLoaded = FALSE
    /\ imageError = FALSE

\* TOOLTIP_CONSTANTS
OFFSET_X == 15
OFFSET_Y == -10

\* a mouse event's clientX, clientY
Pointer(x, y) == [clientX |-> x, clientY |-> y]

\* lines 39-45
NoTooltip ==
    [domain |-> <<>>, title |-> <<>>, analytics |-> Null,
     position |-> [x |-> 0, y |-> 0], visible |-> FALSE]

\* window.innerWidth, window.innerHeight
Viewport(w, h) == [width |-> w, height |-> h]

DefaultViewport == Viewport(1000, 1000)

PointerInit(window) ==
    /\ tooltip = NoTooltip
    /\ animationFrame = Null
    /\ viewport = window
    /\ reloadTimer = FALSE
    /\ placedFor = Null
    /\ lastPointer = Null

\* lines 133-141: a later area with the same domain overwrites
domainLookupMap ==
    IF appData = Null THEN <<>>
    ELSE LET areas == appData.areas
         IN [d \in {areas[i].domain : i \in DOMAIN areas} |->
               areas[CHOOSE i \in DOMAIN areas :
                       /\ areas[i].domain = d
                       /\ \A j \in DOMAIN areas : areas[j].domain = d => j <= i]]

\* lines 143-180
handleAreaHover(area, e) ==
    LET isAreaData == "analytics" \in DOMAIN area
        matchingArea == mapGet(domainLookupMap, area.domain)
        analytics ==
            IF isAreaData THEN area.analytics
            ELSE IF matchingArea = Undefined \/ matchingArea.analytics = Null
                 THEN Null
                 ELSE matchingArea.analytics
        tooltipHeight == 200
        viewportHeight == viewport.height
        mouseY == e.clientY
        shouldPositionAbove ==
            \/ 2 * mouseY > viewportHeight
            \/ mouseY + tooltipHeight > viewportHeight - 20
    IN /\ tooltip' =
            [domain |-> area.domain, title |-> area.title, analytics |-> analytics,
             position |->
                 [x |-> e.clientX + OFFSET_X,
                  y |-> IF shouldPositionAbove
                        THEN e.clientY - tooltipHeight - 10
                        ELSE e.clientY + OFFSET_Y],
             visible |-> TRUE]
       /\ placedFor' = e
       /\ lastPointer' = e
       /\ UNCHANGED <<storeVars, exportVars, mapVars, loaderVars, lastCall, utilVars,
                      animationFrame, viewport, reloadTimer>>

\* lines 113-122: the pending frame is cancelled and a new one requested
handleMouseMove(e) ==
    /\ tooltip.visible
    /\ animationFrame' = e
    /\ lastPointer' = e
    /\ UNCHANGED <<storeVars, exportVars, mapVars, loaderVars, lastCall, utilVars,
                   tooltip, viewport, reloadTimer, placedFor>>

\* lines 122-129: the requested frame runs
animationFrameFires ==
    /\ animationFrame # Null
    /\ tooltip' = [tooltip EXCEPT
                      !.position = [x |-> animationFrame.clientX + OFFSET_X,
                                    y |-> animationFrame.clientY + OFFSET_Y]]
    /\ placedFor' = animationFrame
    /\ animationFrame' = Null
    /\ UNCHANGED lastPointer
    /\ UNCHANGED <<storeVars, exportVars, mapVars, loaderVars, lastCall, utilVars,
                   viewport, reloadTimer>>

\* lines 183-185
handleAreaLeave ==
    /\ tooltip' = [tooltip EXCEPT !.visible = FALSE]
    /\ UNCHANGED <<storeVars, exportVars, mapVars, loaderVars, lastCall, utilVars,
                   animationFrame, viewport, reloadTimer, placedFor,
                   lastPointer>>

\* the selection cleared whatever the event's target
handleMapClick_AnyTarget(target, selected) == Null

\* lines 236-241, as the selectedDomain it leaves; the handler sits on the map
\* container, which is the event's currentTarget
handleMapClick(target, selected) ==
    IF target = "container" THEN Null ELSE selected

\* lines 188-204, followed by the container's onClick as the event bubbles
\* (line 345); the effect of lines 229-233 hides the tooltip as well
handleAreaClick(area) ==
    /\ selectedDomain' = handleMapClick("region", Text(area.domain))
    /\ tooltip' = [tooltip EXCEPT !.visible = FALSE]
    /\ reloadTimer' = TRUE
    /\ UNCHANGED <<appData, fuse, domainMap, query, results, filters,
                   highlightedAreas, exportVars, mapVars, loaderVars, lastCall, utilVars,
                   animationFrame, viewport, placedFor, lastPointer>>

\* a click whose target is no region: the container or the image in it
clickBackground(target) ==
    /\ selectedDomain' = handleMapClick(target, selectedDomain)
    /\ UNCHANGED <<appData, fuse, domainMap, query, results, filters,
                   highlightedAreas, exportVars, mapVars, loaderVars, lastCall, utilVars,
                   pointerVars>>

\* DomainTooltip.tsx lines 57-88
getTooltipPosition ==
    LET tooltipWidth == 320
        tooltipHeight == 300
        padding == 20
        left0 == tooltip.position.x + 5
        top0 == tooltip.position.y + 5
        left1 == IF left0 + tooltipWidth > viewport.width - padding
                 THEN tooltip.position.x - tooltipWidth - 5
                 ELSE left0
        left == IF left1 < padding THEN padding ELSE left1
        top1 == IF top0 + tooltipHeight > viewport.height - padding
                THEN tooltip.position.y - tooltipHeight + 100
                ELSE top0
        top == IF top1 < padding THEN padding ELSE top1
    IN [left |-> left, top |-> top]

\* coordinateUtils.isValidCoordinate with the default maxWidth, maxHeight
isValidCoordinate(x, y, width, height) ==
    /\ x >= 0
    /\ y >= 0
    /\ x + width <= 1000
    /\ y + height <= 1000
    /\ width > 0
    /\ height > 0

---------------------------------------------------------------------------
(* App component: the dataset loader (src/App.tsx)                         *)
(*                                                                         *)
(* loadingProgress and lastSuccessfulLoad only feed the progress bar and a *)
(* caption; nothing below reads them and they are left out.                *)

Attempts == 1..3

\* new Error(message)
Error(message) == [name |-> "Error", message |-> message]

\* the ways the request of line 51 can end: it rejects, or a response comes
Rejected(name, message) == [kind |-> "rejected", name |-> name, message |-> message]

Response(status, statusText, contentType, body) ==
    [kind |-> "response", status |-> status, statusText |-> statusText,
     contentType |-> contentType, body |-> body]

\* a response body: text that JSON.parse refuses, or a document
NotJson == [json |-> FALSE]
Json(data) == [json |-> TRUE, data |-> data]

\* a document read as an object with the two properties the loader looks at
Document(areas, metadata) == [areas |-> areas, metadata |-> metadata]

\* String.prototype.includes, on the strings that occur below
stringIncludes(string, part) ==
    <<string, part>> \in
        {<<"Failed to fetch", "Failed to fetch">>,
         <<"Invalid response format. Expected JSON data.", "JSON">>,
         <<"Unexpected token < in JSON at position 0", "JSON">>,
         <<"application/json", "application/json">>,
         <<"application/json; charset=utf-8", "application/json">>}

\* the template literal of line 70, on the responses that occur below
httpErrorMessage(status, statusText) ==
    IF status = 403 /\ statusText = "Forbidden" THEN "HTTP 403: Forbidden"
    ELSE "HTTP 400: Bad Request"

\* typeof v === 'object' for a non-null value
typeofObject(v) ==
    DOMAIN v \cap {"undefined", "null", "str", "num", "bool", "text", "nan"} = {}

\* thrownBy without the check of metadata.totalAreas (lines 99-101)
thrownBy_AnyTotal(response) ==
    IF response.kind = "rejected"
    THEN [name |-> response.name, message |-> response.message]
    ELSE IF ~(response.status >= 200 /\ response.status <= 299)
    THEN IF response.status = 404
         THEN Error("Data file not found. Please ensure the application is properly deployed.")
         ELSE IF response.status >= 500
         THEN Error("Server error. Please try again later.")
         ELSE Error(httpErrorMessage(response.status, response.statusText))
    ELSE IF ~Truthy(response.contentType)
            \/ ~stringIncludes(response.contentType.str, "application/json")
    THEN Error("Invalid response format. Expected JSON data.")
    ELSE IF ~response.body.json
    THEN [name |-> "SyntaxError", message |-> "Unexpected token < in JSON at position 0"]
    ELSE LET data == response.body.data
         IN IF ~Truthy(data) \/ ~typeofObject(data)
            THEN Error("Invalid data format: expected object")
            ELSE IF ~Truthy(Get(data, "areas")) \/ "list" \notin DOMAIN Get(data, "areas")
            THEN Error("Invalid data format: missing or invalid areas array")
            ELSE IF Len(data.areas.list) = 0
            THEN Error("No domain data available")
            ELSE IF ~Truthy(Get(data, "metadata")) \/ ~typeofObject(Get(data, "metadata"))
            THEN Error("Invalid data format: missing or invalid metadata")
            ELSE Null

\* lines 50-101: what the inner try block throws, or Null when it gets through
thrownBy(response) ==
    IF response.kind = "rejected"
    THEN [name |-> response.name, message |-> response.message]
    ELSE IF ~(response.status >= 200 /\ response.status <= 299)
    THEN IF response.status = 404
         THEN Error("Data file not found. Please ensure the application is properly deployed.")
         ELSE IF response.status >= 500
         THEN Error("Server error. Please try again later.")
         ELSE Error(httpErrorMessage(response.status, response.statusText))
    ELSE IF ~Truthy(response.contentType)
            \/ ~stringIncludes(response.contentType.str, "application/json")
    THEN Error("Invalid response format. Expected JSON data.")
    ELSE IF ~response.body.json
    THEN [name |-> "SyntaxError", message |-> "Unexpected token < in JSON at position 0"]
    ELSE LET data == response.body.data
         IN IF ~Truthy(data) \/ ~typeofObject(data)
            THEN Error("Invalid data format: expected object")
            ELSE IF ~Truthy(Get(data, "areas")) \/ "list" \notin DOMAIN Get(data, "areas")
            THEN Error("Invalid data format: missing or invalid areas array")
            ELSE IF Len(data.areas.list) = 0
            THEN Error("No domain data available")
            ELSE IF ~Truthy(Get(data, "metadata")) \/ ~typeofObject(Get(data, "metadata"))
            THEN Error("Invalid data format: missing or invalid metadata")
            ELSE IF "num" \notin DOMAIN Get(data.metadata, "totalAreas")
                    \/ data.metadata.totalAreas.num <= 0
            THEN Error("Invalid metadata: totalAreas must be a positive number")
            ELSE Null

\* lines 117-134: the message shown for what was thrown
errorMessage(err) ==
    IF err.name = "AbortError" THEN "Request timed out"
    ELSE IF stringIncludes(err.message, "Failed to fetch")
            \/ stringIncludes(err.message, "NetworkError")
    THEN "Network connection error"
    ELSE IF stringIncludes(err.message, "JSON") THEN "Data parsing error"
    ELSE err.message

\* line 148
backoffDelay(attempt) == (2 ^ attempt) * 1000

\* line 147
retryWanted(attempt, online) == attempt < 3 /\ online

\* the document as the store receives it (line 104)
asAppData(data) == [areas |-> data.areas.list, metadata |-> data.metadata]

\* a bag of attempt numbers
EmptyBag == [a \in Attempts |-> 0]
BagAdd(bag, a) == [bag EXCEPT ![a] = @ + 1]
BagRemove(bag, a) == [bag EXCEPT ![a] = @ - 1]
BagSize(bag) == bag[1] + bag[2] + bag[3]

\* outcomes and delays record the run that began at mount: the error each
\* attempt ended with (Null for none) and the delay of each timer it set;
\* they are kept while only that run acts
logged(log, entry) == IF interfered THEN log ELSE Append(log, entry)

\* lines 39 and 131-136: the error shown when the browser is offline
NoConnection ==
    Str(errorMessage(Error("No internet connection. Please check your network and try again.")))

\* loadAppData without the setError(null) of line 34
loadAppData_KeepError(attempt, online) ==
    IF ~online
    THEN /\ error' = NoConnection
         /\ loading' = FALSE
         /\ UNCHANGED fetches
    ELSE /\ loading' = TRUE
         /\ UNCHANGED error
         /\ fetches' = BagAdd(fetches, attempt)

\* lines 31-48 and, when the browser is offline, 116-159: loadAppData up to
\* its first await; online is navigator.onLine as this call reads it
loadAppData(attempt, online) ==
    IF ~online
    THEN /\ error' = NoConnection
         /\ loading' = FALSE
         /\ UNCHANGED fetches
    ELSE /\ loading' = TRUE
         /\ error' = Null
         /\ fetches' = BagAdd(fetches, attempt)

\* lines 196-198: the effect that runs once after the first render
mount ==
    /\ ~mounted
    /\ mounted' = TRUE
    /\ loadAppData(1, navigatorOnLine)
    /\ outcomes' = IF navigatorOnLine THEN outcomes ELSE logged(outcomes, NoConnection)
    /\ UNCHANGED <<retryCount, isOnline, navigatorOnLine, timers, delays,
                   interfered, storeVars, exportVars, mapVars, lastCall, utilVars,
                   pointerVars>>

\* lines 60-159: the request of one attempt ends and loadAppData runs on to
\* its end
fetchSettles(attempt, response) ==
    /\ fetches[attempt] > 0
    /\ LET err == thrownBy(response)
       IN IF err = Null
          THEN /\ setAppData(asAppData(response.body.data))
               /\ retryCount' = 0
               /\ fetches' = BagRemove(fetches, attempt)
               /\ outcomes' = logged(outcomes, Null)
               /\ loading' = FALSE
               /\ UNCHANGED <<error, timers, delays>>
          ELSE /\ error' = Str(errorMessage(err))
               /\ fetches' = BagRemove(fetches, attempt)
               /\ outcomes' = logged(outcomes, Str(errorMessage(err)))
               /\ IF retryWanted(attempt, navigatorOnLine)
                  THEN /\ timers' = BagAdd(timers, attempt)
                       /\ delays' = logged(delays, backoffDelay(attempt))
                  ELSE UNCHANGED <<timers, delays>>
               /\ loading' = FALSE
               /\ UNCHANGED <<retryCount, storeVars>>
    /\ UNCHANGED <<mounted, isOnline, navigatorOnLine, interfered, exportVars,
                   mapVars, lastCall, utilVars,
                   pointerVars>>

\* lines 149-152: a backoff timer fires
retryTimerFires(attempt) ==
    /\ timers[attempt] > 0
    /\ timers' = BagRemove(timers, attempt)
    /\ retryCount' = attempt
    /\ loadAppData(attempt + 1, navigatorOnLine)
    /\ outcomes' = IF navigatorOnLine THEN outcomes ELSE logged(outcomes, NoConnection)
    /\ UNCHANGED <<mounted, isOnline, navigatorOnLine, delays, interfered,
                   storeVars, exportVars, mapVars, lastCall, utilVars,
                   pointerVars>>

\* lines 342-344: what the component returns
Screen ==
    IF loading THEN "loading"
    ELSE IF Truthy(error) THEN "error"
    ELSE IF appData = Null THEN "blank"
    ELSE "main"

\* lines 292-299: the "Try Again" button is on screen and enabled
retryAvailable == Screen = "error" /\ ~(loading \/ ~isOnline)

\* lines 163-166, from a click on the button
handleRetry ==
    /\ mounted /\ retryAvailable
    /\ BagSize(fetches) + BagSize(timers) < MaxPending
    /\ retryCount' = 0
    /\ loadAppData(1, navigatorOnLine)
    /\ interfered' = TRUE
    /\ outcomes' = <<>>
    /\ delays' = <<>>
    /\ UNCHANGED <<mounted, isOnline, navigatorOnLine, timers, storeVars,
                   exportVars, mapVars, lastCall, utilVars,
                   pointerVars>>

\* lines 170-176: the browser comes back online
handleOnline ==
    /\ mounted /\ ~navigatorOnLine
    /\ BagSize(fetches) + BagSize(timers) < MaxPending
    /\ navigatorOnLine' = TRUE
    /\ isOnline' = TRUE
    /\ IF Truthy(error) /\ ~loading
       THEN loadAppData(1, TRUE)
       ELSE UNCHANGED <<loading, error, fetches>>
    /\ interfered' = TRUE
    /\ outcomes' = <<>>
    /\ delays' = <<>>
    /\ UNCHANGED <<mounted, retryCount, timers, storeVars, exportVars, mapVars, lastCall, utilVars,
                   pointerVars>>

\* lines 178-184: the browser goes offline
handleOffline ==
    /\ mounted /\ navigatorOnLine
    /\ navigatorOnLine' = FALSE
    /\ isOnline' = FALSE
    /\ IF loading
       THEN /\ error' = Str("Connection lost. Please check your internet connection.")
            /\ loading' = FALSE
       ELSE UNCHANGED <<loading, error>>
    /\ interfered' = TRUE
    /\ outcomes' = <<>>
    /\ delays' = <<>>
    /\ UNCHANGED <<mounted, retryCount, fetches, timers, storeVars, exportVars,
                   mapVars, lastCall, utilVars,
                   pointerVars>>

\* lines 23-27; online is navigator.onLine when the component is constructed
LoaderInit(online) ==
    /\ loading = TRUE
    /\ error = Null
    /\ retryCount = 0
    /\ isOnline = online
    /\ navigatorOnLine = online
    /\ mounted = FALSE
    /\ fetches = EmptyBag
    /\ timers = EmptyBag
    /\ outcomes = <<>>
    /\ delays = <<>>
    /\ interfered = FALSE

---------------------------------------------------------------------------
(* Inputs *)

Queries ==
    {<<>>, <<" ">>, <<"a">>, <<" ", "B", " ">>, <<"a", "b">>, <<"B", "A">>,
     <<"z", "z">>}

\* what the filter panel produces: undefined for "All", strings, true, sort keys
FilterSets ==
    {NoFilters,
     WithKey(NoFilters, "dnsStatus", Undefined),
     WithKey(WithKey(NoFilters, "sortBy", Str("domain")), "sortDirection", Str("desc")),
     WithKey(NoFilters, "dnsStatus", Str("NOERROR")),
     WithKey(NoFilters, "hasAnalytics", Bool(TRUE))}

SelectableDomains == {Text(d) : d \in Domains} \cup {Null}

---------------------------------------------------------------------------
(* SearchBox: part_005                                                     *)

\* lines 35-38
SearchBoxInit ==
    /\ localFilters = NoFilters
    /\ sortBy = "domain"
    /\ sortDirection = "asc"

\* the state outside the store and the SearchBox
outsideSearchBox ==
    <<exportVars, mapVars, loaderVars, pointerVars, quadVars, debounceVars,
      asyncVars, lastCall>>

\* lines 45-49
handleFilterChange(key, value) ==
    LET newFilters == WithKey(localFilters, key, value)
    IN /\ localFilters' = newFilters
       /\ setFilters(newFilters)
       /\ UNCHANGED <<sortBy, sortDirection, outsideSearchBox>>

\* lines 51-60: both calls of handleFilterChange spread the localFilters of
\* the render the handler was made in, so the second call's object is the one
\* that stays, in the component and in the store
handleSortChange(newSortBy) ==
    LET direction == IF sortDirection = "asc" THEN "desc" ELSE "asc"
        newFilters == WithKey(localFilters, "sortDirection", Str(direction))
    IN /\ IF sortBy = newSortBy
          THEN /\ sortDirection' = direction
               /\ UNCHANGED sortBy
          ELSE /\ sortBy' = newSortBy
               /\ sortDirection' = "asc"
       /\ localFilters' = newFilters
       /\ setFilters(newFilters)
       /\ UNCHANGED outsideSearchBox

\* lines 62-68
clearFilters ==
    /\ localFilters' = NoFilters
    /\ setFilters(NoFilters)
    /\ sortBy' = "domain"
    /\ sortDirection' = "asc"
    /\ UNCHANGED outsideSearchBox

\* line 155: the clear button of the search field calls the store's
\* clearSearch
clickClearSearch ==
    /\ clearSearch
    /\ UNCHANGED <<localFilters, sortBy, sortDirection, outsideSearchBox>>

---------------------------------------------------------------------------
(* Coordinate parsers                                                      *)

QuadInit(c) ==
    /\ coordsAttr = c
    /\ rectangles = Null

\* part_006 lines 326-339: coordinateUtils.parseMapCoordinates
parseMapCoordinates(c) ==
    IF c = <<>> THEN Null
    ELSE LET tokens == split(c, ",")
             coordArray == [i \in DOMAIN tokens |-> toNumber(tokens[i])]
         IN IF Len(coordArray) # 4 \/ \E i \in DOMAIN coordArray : coordArray[i] = NaN
            THEN Null
            ELSE LET x1 == coordArray[1].num
                     y1 == coordArray[2].num
                     x2 == coordArray[3].num
                     y2 == coordArray[4].num
                 IN Rect(Min(x1, x2), Min(y1, y2), Abs(x2 - x1), Abs(y2 - y1))

\* a - b on JavaScript numbers and undefined
minus(a, b) ==
    IF a \in {NaN, Undefined} \/ b \in {NaN, Undefined} THEN NaN
    ELSE Num(a.num - b.num)

\* parse-area-map.js lines 18-26 and 45-57: the coordinates of one area
\* element, Null when the element has no coords attribute to match
areaMapCoordinates(c) ==
    IF c = <<>> THEN Null
    ELSE LET tokens == split(c, ",")
             nums == [i \in DOMAIN tokens |-> toNumber(tokens[i])]
             at(i) == IF i \in DOMAIN nums THEN nums[i] ELSE Undefined
         IN [x |-> at(1), y |-> at(2),
             width |-> minus(at(3), at(1)), height |-> minus(at(4), at(2))]

\* the three parsers applied to the attribute
parseQuad ==
    /\ rectangles = Null
    /\ rectangles' =
          [util |-> parseMapCoordinates(coordsAttr),
           overlay |-> parseAreaCoordinates(
                           [coords |-> coordsAttr, domain |-> <<>>, title |-> <<>>]),
           script |-> areaMapCoordinates(coordsAttr)]
    /\ UNCHANGED <<storeVars, exportVars, mapVars, loaderVars, lastCall,
                   pointerVars, searchBoxVars, debounceVars, asyncVars,
                   coordsAttr>>

\* another area element is read
readArea(c) ==
    /\ coordsAttr' = c
    /\ rectangles' = Null
    /\ UNCHANGED <<storeVars, exportVars, mapVars, loaderVars, lastCall,
                   pointerVars, searchBoxVars, debounceVars, asyncVars>>

---------------------------------------------------------------------------
(* useDebounce: accessibility.ts; createDebouncedSearch: part_006          *)

\* accessibility.ts lines 873-885: the state starts as the value and the
\* effect of the first render sets a timer; part_006 line 553: let timeoutId
DebounceInit(v) ==
    /\ inputValue = v
    /\ debouncedValue = v
    /\ handler = v
    /\ changes = 0
    /\ lastArgs = Null
    /\ timeoutId = Undefined
    /\ searched = <<>>
    /\ calls = 0

outsideDebounce ==
    <<storeVars, exportVars, mapVars, loaderVars, pointerVars, searchBoxVars,
      quadVars, asyncVars, lastCall>>

\* the caller renders with another value and the effect keeps its timer:
\* useDebounce with [delay] for the effect's dependencies
valueChanges_KeepTimer(v) ==
    /\ changes < MaxInputs
    /\ v # inputValue
    /\ inputValue' = v
    /\ changes' = changes + 1
    /\ UNCHANGED <<handler, debouncedValue, lastArgs, timeoutId, searched, calls,
                   outsideDebounce>>

\* accessibility.ts lines 876-884: the caller renders with another value; the
\* cleanup of the effect clears the timer and the effect sets one for v
valueChanges(v) ==
    /\ changes < MaxInputs
    /\ v # inputValue
    /\ inputValue' = v
    /\ handler' = v
    /\ changes' = changes + 1
    /\ UNCHANGED <<debouncedValue, lastArgs, timeoutId, searched, calls,
                   outsideDebounce>>

\* accessibility.ts lines 877-879: the timer of the effect fires
handlerFires ==
    /\ handler # Null
    /\ debouncedValue' = handler
    /\ handler' = Null
    /\ UNCHANGED <<inputValue, changes, lastArgs, timeoutId, searched, calls,
                   outsideDebounce>>

\* part_006 lines 555-558: the function createDebouncedSearch returned is
\* called
debouncedSearch(args) ==
    /\ calls < MaxInputs
    /\ timeoutId' = [args |-> args, pending |-> TRUE]
    /\ lastArgs' = args
    /\ calls' = calls + 1
    /\ UNCHANGED <<inputValue, debouncedValue, handler, changes, searched,
                   outsideDebounce>>

\* part_006 line 557: the timer fires and calls searchFn
searchTimerFires ==
    /\ timeoutId # Undefined
    /\ timeoutId.pending
    /\ searched' = Append(searched, timeoutId.args)
    /\ timeoutId' = [timeoutId EXCEPT !.pending = FALSE]
    /\ UNCHANGED <<inputValue, debouncedValue, handler, changes, lastArgs, calls,
                   outsideDebounce>>

---------------------------------------------------------------------------
(* useAsyncOperation: accessibility.ts                                     *)

\* lines 786-791
IdleState ==
    [isLoading |-> FALSE, progress |-> 0, data |-> Undefined, error |-> Undefined]

\* operations holds the executes whose operation has not settled, each with
\* whether its abort timeout is still to fire; the other three count the
\* running timers of each kind
AsyncInit ==
    /\ state = IdleState
    /\ operations = <<>>
    /\ abortTimers = 0
    /\ progressIntervals = 0
    /\ clearTimers = 0

outsideAsync ==
    <<storeVars, exportVars, mapVars, loaderVars, pointerVars, searchBoxVars,
      quadVars, debounceVars, lastCall>>

\* the sequence without its i-th element
without(s, i) == [j \in 1..(Len(s) - 1) |-> IF j < i THEN s[j] ELSE s[j + 1]]

\* lines 794-816: execute up to its await; withTimeout is whether
\* options.timeout is given
execute(withTimeout) ==
    /\ progressIntervals < MaxTimers /\ clearTimers < MaxTimers
    /\ state' = [state EXCEPT !.isLoading = TRUE, !.error = Undefined,
                               !.progress = 0]
    /\ operations' = Append(operations, [abort |-> withTimeout])
    /\ abortTimers' = abortTimers + (IF withTimeout THEN 1 ELSE 0)
    /\ progressIntervals' = progressIntervals + 1
    /\ UNCHANGED <<clearTimers, outsideAsync>>

\* lines 809-815: a progress interval ticks
progressTick ==
    /\ progressIntervals > 0
    /\ state' = [state EXCEPT !.progress = Min(state.progress + 10, 90)]
    /\ UNCHANGED <<operations, abortTimers, progressIntervals, clearTimers,
                   outsideAsync>>

\* lines 804-806: an abort timeout fires, of the pending execute i or, with
\* i = 0, of an execute that has ended; the controller's signal is given to
\* nothing
abortFires(i) ==
    /\ IF i = 0
       THEN /\ abortTimers > Cardinality({j \in DOMAIN operations : operations[j].abort})
            /\ UNCHANGED operations
       ELSE /\ i \in DOMAIN operations
            /\ operations[i].abort
            /\ operations' = [operations EXCEPT ![i].abort = FALSE]
    /\ abortTimers' = abortTimers - 1
    /\ UNCHANGED <<state, progressIntervals, clearTimers, outsideAsync>>

\* lines 817-835: the operation of the pending execute i resolves
operationResolves(i, result) ==
    /\ i \in DOMAIN operations
    /\ abortTimers' = abortTimers - (IF operations[i].abort THEN 1 ELSE 0)
    /\ progressIntervals' = progressIntervals - 1
    /\ state' = [state EXCEPT !.isLoading = FALSE, !.progress = 100,
                               !.data = result]
    /\ clearTimers' = clearTimers + 1
    /\ operations' = without(operations, i)
    /\ UNCHANGED outsideAsync

\* lines 830-832: the timeout set after a success fires
clearTimerFires ==
    /\ clearTimers > 0
    /\ clearTimers' = clearTimers - 1
    /\ state' = [state EXCEPT !.progress = 0]
    /\ UNCHANGED <<operations, abortTimers, progressIntervals, outsideAsync>>

\* lines 837-841: the AppError made of what was thrown (its timestamp left
\* out)
appErrorOf(thrown) ==
    [message |-> IF "name" \in DOMAIN thrown THEN thrown.message
                 ELSE "Unknown error",
     retryable |-> TRUE]

\* lines 836-851: the operation of the pending execute i rejects
operationRejects(i, thrown) ==
    /\ i \in DOMAIN operations
    /\ state' = [state EXCEPT !.isLoading = FALSE, !.progress = 0,
                               !.error = appErrorOf(thrown)]
    /\ operations' = without(operations, i)
    /\ UNCHANGED <<abortTimers, progressIntervals, clearTimers, outsideAsync>>

\* lines 854-861
reset ==
    /\ state' = IdleState
    /\ UNCHANGED <<operations, abortTimers, progressIntervals, clearTimers,
                   outsideAsync>>

UtilInit ==
    /\ SearchBoxInit
    /\ QuadInit(<<>>)
    /\ DebounceInit(Num(0))
    /\ AsyncInit

---------------------------------------------------------------------------
(* Spec: the store driven by its actions *)

componentVars == <<exportVars, mapVars, loaderVars, pointerVars, utilVars>>
nonStoreVars == <<componentVars, lastCall>>

SetAppData == \E data \in Datasets : setAppData(data) /\ UNCHANGED nonStoreVars
SetSearchQuery == \E q \in Queries : setSearchQuery(q) /\ UNCHANGED nonStoreVars
SetFilters == \E fs \in FilterSets : setFilters(fs) /\ UNCHANGED nonStoreVars
SetSelectedDomain ==
    \E d \in SelectableDomains : setSelectedDomain(d) /\ UNCHANGED nonStoreVars
ClearSearch == clearSearch /\ UNCHANGED nonStoreVars
HighlightDomain == \E d \in Domains : highlightDomain(d) /\ UNCHANGED nonStoreVars
ClearHighlights == clearHighlights /\ UNCHANGED nonStoreVars

NoCall == [op |-> "none", arg |-> Null]

Init ==
    /\ StoreInit /\ ExportInit /\ MapInit /\ LoaderInit(TRUE) /\ lastCall = NoCall
    /\ PointerInit(DefaultViewport)
    /\ UtilInit

Next ==
    \/ SetAppData
    \/ SetSearchQuery
    \/ SetFilters
    \/ SetSelectedDomain
    \/ ClearSearch
    \/ HighlightDomain
    \/ ClearHighlights

Spec == Init /\ [][Next]_vars

---------------------------------------------------------------------------
(* SpecExport: the search box and the export panel *)

ExportQueries == {<<>>, <<"a">>, <<"z", "z">>}

ExportSetSearchQuery ==
    \E q \in ExportQueries : setSearchQuery(q) /\ UNCHANGED nonStoreVars
ExportClearSearch == clearSearch /\ UNCHANGED nonStoreVars

NextExport ==
    \/ SetAppData
    \/ ExportSetSearchQuery
    \/ SetFilters
    \/ ExportClearSearch
    \/ toggleOptions
    \/ toggleOnlyFiltered
    \/ handleExport

SpecExport == Init /\ [][NextExport]_vars

---------------------------------------------------------------------------
(* Claims about the store and the export *)

\* the registry as a list of areas: empty before the first load
Registry == IF appData = Null THEN <<>> ELSE appData.areas

\* what (query, filters, registry) determine: text search, then filters
ExpectedResults ==
    IF appData = Null THEN <<>>
    ELSE applyFilters(searchCandidates([docs |-> appData.areas], appData, query),
                      filters)

\* SearchBox activeFiltersCount: the keys that constrain, sort keys apart
ActiveFilterKeys(fs) ==
    {k \in ObjectKeys(fs) \ {"sortBy", "sortDirection"} : fs[k] # Undefined}

HighlightSet == {highlightedAreas[i] : i \in DOMAIN highlightedAreas}

ResultDomains == {results[i].domain : i \in DOMAIN results}

(* C1: in every reachable state of the store, results is the value         *)
(* computed from the current query, filters and registry.                  *)
C1_ResultsMatchInputs == results = ExpectedResults

(* C2: in every reachable state of the store, the highlight set is the set *)
(* of distinct domains of the areas in results.                            *)
C2_HighlightMatchesResults == HighlightSet = ResultDomains

(* C3: with "only filtered" checked the export receives exactly the        *)
(* current results, the empty list included when the query and filters     *)
(* match nothing; unchecked, it receives the full registry.  The formula   *)
(* is stated for the states whose results are those of the current query   *)
(* and filters.                                                            *)
C3_ExportReceivesResults ==
    (appData # Null /\ results = ExpectedResults) =>
        getDataToExport = IF onlyFiltered THEN results ELSE appData.areas

(* C10: for every registry and every query whose trimmed length is 0, with *)
(* no active filter, setSearchQuery(q) yields the first SEARCH_LIMIT areas *)
(* of the registry, in registry order.                                     *)
C10_EmptyQueryYieldsRegistryPrefix ==
    [][\A q \in Queries :
        (/\ appData # Null
         /\ Len(trim(q)) = 0
         /\ ActiveFilterKeys(filters) = {}
         /\ setSearchQuery(q))
        => results' = slice0(appData.areas, SEARCH_LIMIT)]_vars

\* a whitespace-only query over a registry longer than the cap, sort keys set
C10_Witness ==
    /\ appData # Null
    /\ Len(appData.areas) > SEARCH_LIMIT
    /\ query = <<" ">>
    /\ ObjectKeys(filters) # {}
    /\ ActiveFilterKeys(filters) = {}
    /\ results = slice0(appData.areas, SEARCH_LIMIT)
    /\ Len(results) = SEARCH_LIMIT

---------------------------------------------------------------------------
(* SpecMap: the store together with the map component; render is the       *)
(* overlay React draws for the current state                               *)

\* the areas of the map resource, as parsed from its <area> elements
HtmlAreaPool ==
    {[coords |-> <<"0", ",", "0", ",", "9", ",", "9">>, title |-> <<"A", "b">>,
      domain |-> <<"a", "b">>],
     [coords |-> <<"9", ",", "9", ",", "0", ",", "0">>, title |-> <<>>,
      domain |-> <<"b">>],
     [coords |-> <<"9", "9", "0", ",", "9", "9", "0", ",", "1", "0", "4", "0", ",",
                   "1", "0", "4", "0">>,
      title |-> <<>>, domain |-> <<"b">>],
     [coords |-> <<"x", ",", "0", ",", "9", ",", "9">>, title |-> <<>>,
      domain |-> <<"a", "b">>]}

\* the longest map resource
MaxHtmlAreas == 2

HtmlMaps == UNION {[1..n -> HtmlAreaPool] : n \in 1..MaxHtmlAreas}

MapDatasets ==
    {MakeAppData(<<AreaFull, AreaBare>>),
     MakeAppData(<<AreaBare>>),
     MakeAppData(<<AreaBare, AreaPartial, AreaFull>>)}

MapQueries == {<<>>, <<"a">>}

MapSetAppData ==
    \E data \in MapDatasets :
        /\ setAppData(data)
        /\ UNCHANGED <<exportVars, loaderVars, lastCall, utilVars, pointerVars,
                   htmlMapAreas, imageLoaded, imageError>>

MapSetSearchQuery ==
    \E q \in MapQueries :
        /\ setSearchQuery(q)
        /\ UNCHANGED <<exportVars, loaderVars, lastCall, utilVars, pointerVars,
                   htmlMapAreas, imageLoaded, imageError>>

MapSetSelectedDomain ==
    \E d \in SelectableDomains :
        /\ setSelectedDomain(d)
        /\ UNCHANGED <<exportVars, loaderVars, lastCall, utilVars, pointerVars,
                   htmlMapAreas, imageLoaded, imageError>>

MapClearSearch ==
    /\ clearSearch
    /\ UNCHANGED <<exportVars, loaderVars, lastCall, utilVars, pointerVars,
                   htmlMapAreas, imageLoaded, imageError>>

SetHtmlMapAreas == \E parsedAreas \in HtmlMaps : setHtmlMapAreas(parsedAreas)

NextMap ==
    \/ MapSetAppData
    \/ MapSetSearchQuery
    \/ MapSetSelectedDomain
    \/ MapClearSearch
    \/ SetHtmlMapAreas
    \/ onLoad
    \/ onError

SpecMap == Init /\ [][NextMap]_vars

---------------------------------------------------------------------------
(* Claims about the overlay *)

\* the rectangle of an area by the rule of the data model: the quad's
\* corners in either order for a map area, coordinates for a dataset area
OwnRect(area) ==
    IF isHtmlArea(area)
    THEN LET tokens == split(area.coords, ",")
             n == [i \in DOMAIN tokens |-> toNumber(tokens[i])]
         IN IF Len(n) = 4 /\ \A i \in DOMAIN n : n[i] # NaN
            THEN Rect(Min(n[1].num, n[3].num), Min(n[2].num, n[4].num),
                      Abs(n[3].num - n[1].num), Abs(n[4].num - n[2].num))
            ELSE Null
    ELSE area.coordinates

HasValidRect(area) ==
    LET r == OwnRect(area)
    IN r # Null /\ isValidCoordinate(r.x, r.y, r.width, r.height)

\* the hit regions rendered for the area at position i of areasToRender
RegionsOf(layer, i) == {p \in DOMAIN layer : layer[p] # Null /\ layer[p].source = i}

(* C4: whenever the overlay is rendered, each area to render whose         *)
(* rectangle is valid has exactly one hit region, at its own rectangle, in *)
(* the highlighted layer iff its domain is highlighted or selected, and    *)
(* otherwise in the non-highlighted layer.                                 *)
C4_EveryValidAreaHasItsRegion ==
    render.overlay =>
        \A i \in DOMAIN areasToRender :
            LET area == areasToRender[i]
                mine == IF isHighlighted(area.domain) THEN render.svg
                        ELSE render.div
                other == IF isHighlighted(area.domain) THEN render.div
                         ELSE render.svg
            IN HasValidRect(area) =>
                  /\ Cardinality(RegionsOf(mine, i)) = 1
                  /\ RegionsOf(other, i) = {}
                  /\ \A p \in RegionsOf(mine, i) : mine[p].rect = OwnRect(area)

(* C5: an area whose rectangle violates the validity invariant is never    *)
(* rendered as a hit region, from the map resource or from the dataset     *)
(* fallback.                                                               *)
C5_InvalidAreaHasNoRegion ==
    render.overlay =>
        \A i \in DOMAIN areasToRender :
            ~HasValidRect(areasToRender[i]) =>
                RegionsOf(render.svg, i) = {} /\ RegionsOf(render.div, i) = {}

---------------------------------------------------------------------------
(* SpecLoad: the loader, the network and the user *)

ValidDocuments ==
    {Document(List(<<AreaFull>>), [totalAreas |-> Num(1)]),
     Document(List(<<AreaBare, AreaFull>>), [totalAreas |-> Num(2)])}

\* documents the validation of lines 82-101 refuses
MalformedDocuments ==
    {Null, Num(1),
     Document(Absent, [totalAreas |-> Num(1)]),
     Document(Str("none"), [totalAreas |-> Num(1)]),
     Document(List(<<>>), [totalAreas |-> Num(1)]),
     Document(List(<<AreaFull>>), Absent),
     Document(List(<<AreaFull>>), [totalAreas |-> Num(0)]),
     Document(List(<<AreaFull>>), [totalAreas |-> Str("1")])}

JsonResponse(body) == Response(200, "OK", Str("application/json; charset=utf-8"), body)

\* a 200 application/json response whose top-level document is malformed
MalformedResponses ==
    {JsonResponse(NotJson)} \cup {JsonResponse(Json(d)) : d \in MalformedDocuments}

\* the request fails to connect, or is aborted by the 30 s timeout
NetworkFailures ==
    {Rejected("TypeError", "Failed to fetch"),
     Rejected("AbortError", "The user aborted a request.")}

Responses ==
    NetworkFailures
    \cup {Response(404, "Not Found", Str("text/html"), NotJson),
          Response(500, "Internal Server Error", Str("text/html"), NotJson),
          Response(403, "Forbidden", Str("text/html"), NotJson),
          Response(200, "OK", Str("text/html"), NotJson),
          Response(200, "OK", Null, NotJson),
          Response(200, "OK", Str("application/json"), NotJson)}
    \cup MalformedResponses
    \cup {JsonResponse(Json(d)) : d \in ValidDocuments}

FetchSettles ==
    \E attempt \in Attempts, response \in Responses : fetchSettles(attempt, response)

RetryTimerFires == \E attempt \in 1..2 : retryTimerFires(attempt)

InitLoad ==
    /\ StoreInit /\ ExportInit /\ MapInit /\ lastCall = NoCall
    /\ PointerInit(DefaultViewport)
    /\ UtilInit
    /\ \E online \in BOOLEAN : LoaderInit(online)

NextLoad ==
    \/ mount
    \/ FetchSettles
    \/ RetryTimerFires
    \/ handleRetry
    \/ handleOnline
    \/ handleOffline

SpecLoad == InitLoad /\ [][NextLoad]_vars

---------------------------------------------------------------------------
(* Claims about the loader *)

\* nothing of the loader is outstanding
AtRest == mounted /\ BagSize(fetches) = 0 /\ BagSize(timers) = 0

NetworkOrTimeout == {Str("Network connection error"), Str("Request timed out")}

\* the run that began at mount ran alone and each of its attempts failed
\* with a network or timeout error
EveryAttemptFailedByNetwork ==
    /\ ~interfered
    /\ outcomes # <<>>
    /\ \A i \in DOMAIN outcomes : outcomes[i] \in NetworkOrTimeout

(* C6: when every attempt of the load fails with a network or timeout      *)
(* error while online, the loader has, once it is at rest, set backoff     *)
(* timers of 2s, 4s and 8s in that order and shows the error screen, not   *)
(* loading, no retry pending, with the manual retry available.             *)
C6_BackoffThenTerminalError ==
    (AtRest /\ EveryAttemptFailedByNetwork) =>
        /\ delays = <<2000, 4000, 8000>>
        /\ Screen = "error" /\ ~loading
        /\ retryAvailable

(* C7: an attempt that fails because the top-level document is malformed   *)
(* schedules no automatic retry and leaves the error screen showing.       *)
C7_MalformedDocumentNotRetried ==
    [][\A attempt \in Attempts, response \in MalformedResponses :
          fetchSettles(attempt, response) =>
              (timers' = timers /\ Screen' = "error")]_vars

(* C8: in a run left alone whose first and second attempts fail and whose  *)
(* third succeeds, retryCount is 2 while the third request is in flight,   *)
(* and once it has succeeded the dataset is loaded, error is null and the  *)
(* main content is displayed.                                              *)
C8_ThirdAttemptSucceeds ==
    /\ (~interfered /\ fetches[3] > 0) => retryCount = 2
    /\ (~interfered /\ Len(outcomes) = 3 /\ outcomes[3] = Null) =>
           (appData # Null /\ error = Null /\ ~loading /\ Screen = "main")

C8_Witness ==
    /\ ~interfered /\ Len(outcomes) = 3
    /\ outcomes[1] # Null /\ outcomes[2] # Null /\ outcomes[3] = Null
    /\ AtRest /\ appData # Null /\ Screen = "main"

(* C9: the error screen is shown only when no automatic retry is pending;  *)
(* while a backoff timer is pending the screen is the loading screen.      *)
C9_ErrorScreenOnlyAfterRetries ==
    BagSize(timers) > 0 => Screen = "loading"

---------------------------------------------------------------------------
(* SpecSearch: the store over registries in which one query has more       *)
(* matches than the cap and relevance order differs from registry order    *)

\* matched by "a" as a prefix, by "ab" and "zz" in its title only
AreaShort ==
    [id |-> 4, domain |-> <<"a">>, title |-> <<"Z", "z", "a", "b">>,
     coordinates |-> Rect(20, 0, 10, 10),
     analytics |-> AreaFull.analytics, hasAnalytics |-> TRUE]

SearchDatasets ==
    {MakeAppData(<<AreaShort, AreaPartial, AreaFull>>),
     MakeAppData(<<AreaFull, AreaShort, AreaPartial>>),
     MakeAppData(<<AreaPartial, AreaBare, AreaShort>>),
     MakeAppData(<<AreaBare, AreaPartial>>)}

SearchQueries == Queries \cup {<<"A">>, <<"b">>}

SearchSetAppData ==
    \E data \in SearchDatasets : setAppData(data) /\ UNCHANGED nonStoreVars

SearchSetSearchQuery ==
    \E q \in SearchQueries : setSearchQuery(q) /\ UNCHANGED nonStoreVars

NextSearch ==
    \/ SearchSetAppData
    \/ SearchSetSearchQuery
    \/ SetFilters
    \/ ClearSearch

SpecSearch == Init /\ [][NextSearch]_vars

---------------------------------------------------------------------------
(* Claims about the text search *)

\* s can be obtained from t by deleting elements
IsSubsequence(s, t) ==
    \E f \in [1..Len(s) -> 1..Len(t)] :
        /\ \A i \in 1..Len(s) : t[f[i]] = s[i]
        /\ \A i, j \in 1..Len(s) : i < j => f[i] < f[j]

HasPrefix(area, q) ==
    \/ startsWith(toLowerCase(area.domain), toLowerCase(trim(q)))
    \/ startsWith(toLowerCase(area.title), toLowerCase(trim(q)))

(* C11: for every query whose trimmed length is exactly 1, after           *)
(* setSearchQuery(q) every area in results has a lowercased domain or      *)
(* title starting with the lowercased trimmed query, results hold at most  *)
(* SEARCH_LIMIT areas, and they keep registry order.                       *)
C11_PrefixResults ==
    [][\A q \in SearchQueries :
        (appData # Null /\ Len(trim(q)) = 1 /\ setSearchQuery(q)) =>
            /\ \A i \in DOMAIN results' : HasPrefix(results'[i], q)
            /\ Len(results') <= SEARCH_LIMIT
            /\ IsSubsequence(results', appData.areas)]_vars

\* a one-character query with more prefix matches than the cap
C11_Witness ==
    /\ appData # Null
    /\ Len(trim(query)) = 1
    /\ Len(results) = SEARCH_LIMIT
    /\ \A i \in DOMAIN results : HasPrefix(results[i], query)
    /\ Cardinality({i \in DOMAIN appData.areas : HasPrefix(appData.areas[i], query)})
          > SEARCH_LIMIT

(* C12: for every query whose trimmed length is at least                   *)
(* MIN_MATCH_CHAR_LENGTH, after setSearchQuery(q) results are the index's  *)
(* ranked output for the trimmed query, limited to SEARCH_LIMIT, then      *)
(* filtered; they are in non-increasing relevance order and every result   *)
(* is an area of the current registry.                                     *)
C12_FuzzyResults ==
    [][\A q \in SearchQueries :
        (appData # Null /\ Len(trim(q)) >= MIN_MATCH_CHAR_LENGTH
           /\ setSearchQuery(q)) =>
            /\ results' = applyFilters(fuseSearch(fuse, trim(q), SEARCH_LIMIT), filters)
            /\ \A i, j \in DOMAIN results' :
                  i < j => relevance(results'[i], trim(q)) >= relevance(results'[j], trim(q))
            /\ \A i \in DOMAIN results' :
                  \E k \in DOMAIN appData.areas : appData.areas[k] = results'[i]]_vars

\* a fuzzy query whose ranked results are not in registry order
C12_Witness ==
    /\ appData # Null
    /\ Len(trim(query)) >= MIN_MATCH_CHAR_LENGTH
    /\ Len(results) = SEARCH_LIMIT
    /\ results = fuseSearch(fuse, trim(query), SEARCH_LIMIT)
    /\ ~IsSubsequence(results, appData.areas)
    /\ relevance(results[1], trim(query)) > relevance(results[2], trim(query))

---------------------------------------------------------------------------
(* SpecTwice: the store with the last call recorded, so that a call can be *)
(* recognised as the repetition of the one before it                       *)

Call(op, arg) == [op |-> op, arg |-> arg]

TwiceSetAppData ==
    \E data \in SearchDatasets :
        /\ setAppData(data)
        /\ lastCall' = Call("setAppData", data)
        /\ UNCHANGED componentVars

TwiceSetSearchQuery ==
    \E q \in SearchQueries :
        /\ setSearchQuery(q)
        /\ lastCall' = Call("setSearchQuery", q)
        /\ UNCHANGED componentVars

TwiceSetFilters ==
    \E fs \in FilterSets :
        /\ setFilters(fs)
        /\ lastCall' = Call("setFilters", fs)
        /\ UNCHANGED componentVars

TwiceClearSearch ==
    /\ clearSearch
    /\ lastCall' = Call("clearSearch", Null)
    /\ UNCHANGED componentVars

NextTwice ==
    \/ TwiceSetAppData
    \/ TwiceSetSearchQuery
    \/ TwiceSetFilters
    \/ TwiceClearSearch

SpecTwice == Init /\ [][NextTwice]_vars

\* the call before this one was op(arg)
Repeats(op, arg) == lastCall.op = op /\ lastCall.arg = arg

(* C13: setSearchQuery(q) called directly after setSearchQuery(q), and     *)
(* setFilters(f) called directly after setFilters(f), leave results and    *)
(* the highlight list as the first call produced them.                     *)
C13_RecomputeIdempotent ==
    [][/\ \A q \in SearchQueries :
            (Repeats("setSearchQuery", q) /\ setSearchQuery(q)) =>
                (results' = results /\ highlightedAreas' = highlightedAreas)
       /\ \A fs \in FilterSets :
            (Repeats("setFilters", fs) /\ setFilters(fs)) =>
                (results' = results /\ highlightedAreas' = highlightedAreas)]_vars

\* a repeated query with results, and a repeated filter set with results
C13_Witness ==
    /\ appData # Null
    /\ results # <<>> /\ highlightedAreas # <<>>
    /\ Repeats("setSearchQuery", query)
    /\ Len(trim(query)) >= MIN_MATCH_CHAR_LENGTH
    /\ hasFilters(filters)

---------------------------------------------------------------------------
(* SpecFilters: the store under filter objects of every shape the types    *)
(* SearchFilters and AdvancedFilters allow                                 *)

\* a key and a value it can be given
FilterChoices ==
    {<<"dnsStatus", Undefined>>, <<"dnsStatus", Str("NOERROR")>>,
     <<"httpStatus", Text(<<"2", "0", "0">>)>>,
     <<"whoisStatus", Str("registered")>>,
     <<"hasAnalytics", Bool(TRUE)>>, <<"hasAnalytics", Bool(FALSE)>>,
     <<"domainLength", [min |-> Num(2), max |-> Undefined]>>,
     <<"domainLength", [min |-> Undefined, max |-> Num(1)]>>,
     <<"dateRange", [start |-> IsoDate(5), end |-> Undefined]>>,
     <<"dateRange", [start |-> Undefined, end |-> IsoDate(4)]>>,
     <<"hasNameservers", Bool(TRUE)>>, <<"hasNameservers", Bool(FALSE)>>,
     <<"sortBy", Str("domain")>>}

\* the filter objects with at most n keys
RECURSIVE FiltersWith(_)
FiltersWith(n) ==
    IF n = 0 THEN {NoFilters}
    ELSE LET fewer == FiltersWith(n - 1)
         IN fewer \cup {WithKey(fs, c[1], c[2]) :
                           <<fs, c>> \in {<<f, d>> \in fewer \X FilterChoices :
                                             f[d[1]] = Absent}}

WideFilterSets == FiltersWith(MaxFilterKeys)

FilterDatasets ==
    {MakeAppData(<<AreaFull, AreaBare, AreaPartial>>),
     MakeAppData(<<AreaShort, AreaBare>>)}

FilterQueries == {<<>>, <<"a", "b">>}

FiltersSetAppData ==
    \E data \in FilterDatasets : setAppData(data) /\ UNCHANGED nonStoreVars

FiltersSetSearchQuery ==
    \E q \in FilterQueries : setSearchQuery(q) /\ UNCHANGED nonStoreVars

FiltersSetFilters ==
    \E fs \in WideFilterSets : setFilters(fs) /\ UNCHANGED nonStoreVars

NextFilters ==
    \/ FiltersSetAppData
    \/ FiltersSetSearchQuery
    \/ FiltersSetFilters

SpecFilters == Init /\ [][NextFilters]_vars

---------------------------------------------------------------------------
(* Filter claims, checked under SpecFilters                                *)

\* the candidates the current query selects, before filtering
Candidates ==
    IF appData = Null THEN <<>> ELSE searchCandidates(fuse, appData, query)

\* g is f with one more active filter key and nothing else changed
AddsOneActiveKey(f, g) ==
    \E k \in FilterKeys :
        /\ k \notin ActiveFilterKeys(f)
        /\ k \in ActiveFilterKeys(g)
        /\ \A j \in FilterKeys \ {k} : g[j] = f[j]

\* C14: when the store holds the results of the current query under filters f
\* and setFilters installs f plus one more active filter key, the new results
\* are no more numerous than the old ones and are a subsequence of them
C14_FilterMonotone ==
    [][(/\ appData # Null
        /\ results = ExpectedResults
        /\ setFilters(filters')
        /\ AddsOneActiveKey(filters, filters'))
         => (/\ Len(results') <= Len(results)
             /\ IsSubsequence(results', results))]_vars

\* two active keys are installed, some area passes both, and one of the keys
\* removed an area that the other keeps
C14_Witness ==
    /\ appData # Null
    /\ results = ExpectedResults
    /\ results # <<>>
    /\ Cardinality(ActiveFilterKeys(filters)) = 2
    /\ \E k \in ActiveFilterKeys(filters) :
           LET f == WithKey(filters, k, Absent)
           IN /\ AddsOneActiveKey(f, filters)
              /\ Len(results) < Len(applyFilters(Candidates, f))

\* the analytics field each analytics-based filter key reads
AnalyticsField ==
    [dnsStatus |-> "dns_status", httpStatus |-> "http_status",
     whoisStatus |-> "whois_status", dateRange |-> "registered_at",
     hasNameservers |-> "nameservers"]

\* the area's analytics is null or has no value for the field that key k reads
LacksField(area, k) ==
    \/ area.analytics = Null
    \/ OptGet(area.analytics, AnalyticsField[k]) = Undefined

\* the active analytics-based keys whose field some result lacks
MissingFieldMatches(fs, rs) ==
    {k \in DOMAIN AnalyticsField \cap ActiveFilterKeys(fs) :
        \E i \in DOMAIN rs : LacksField(rs[i], k)}

\* C15: after setFilters, for every active analytics-based filter key
\* (dnsStatus, httpStatus, whoisStatus, dateRange, hasNameservers, whatever its
\* value) no area whose analytics is null or lacks the filtered field is among
\* the results
C15_MissingFieldNeverMatches ==
    [][(appData # Null /\ setFilters(filters'))
         => MissingFieldMatches(filters', results') = {}]_vars

\* the same with hasNameservers set to false left aside
C15_MissingFieldNeverMatchesUnlessNoNameservers ==
    [][(appData # Null /\ setFilters(filters'))
         => MissingFieldMatches(filters', results')
               \subseteq {k \in {"hasNameservers"} : filters'[k] = Bool(FALSE)}]_vars

\* the area satisfies the predicate of the active key k with value v
Satisfies(area, k, v) ==
    CASE k = "dnsStatus" ->
           area.analytics # Null /\ area.analytics.dns_status = v
      [] k = "httpStatus" ->
           /\ area.analytics # Null
           /\ area.analytics.http_status \notin {Absent, Undefined}
           /\ Text(numberToString(area.analytics.http_status.num)) = v
      [] k = "whoisStatus" ->
           area.analytics # Null /\ area.analytics.whois_status = v
      [] k = "hasAnalytics" -> Bool(area.hasAnalytics) = v
      [] k = "domainLength" ->
           /\ (v.min # Undefined => v.min.num <= Len(area.domain))
           /\ (v.max # Undefined => Len(area.domain) <= v.max.num)
      [] k = "dateRange" ->
           /\ area.analytics # Null
           /\ area.analytics.registered_at \notin {Absent, Undefined}
           /\ (v.start # Undefined => v.start.iso <= area.analytics.registered_at.iso)
           /\ (v.end # Undefined => area.analytics.registered_at.iso <= v.end.iso)
      [] k = "hasNameservers" ->
           v = Bool(/\ area.analytics # Null
                    /\ area.analytics.nameservers \notin {Absent, Undefined}
                    /\ area.analytics.nameservers.list # <<>>)

\* the areas of a list that satisfy every active predicate of fs, in order
ExactlyFiltered(areas, fs) ==
    LET keep(area) == \A k \in ActiveFilterKeys(fs) : Satisfies(area, k, fs[k])
    IN SelectSeq(areas, keep)

\* C16: setFilters leaves in results exactly the candidates of the current
\* query that satisfy every active predicate (status equalities, http status
\* as a string, hasAnalytics equality, inclusive length and date bounds,
\* hasNameservers equal to "nameservers is non-empty"), in candidate order;
\* with no active key the candidates are unchanged, and keys that are no
\* filter (sortBy) change nothing
C16_FiltersExact ==
    [][(appData # Null /\ setFilters(filters'))
         => results' = ExactlyFiltered(Candidates, filters')]_vars

\* a length bound is active together with a key that is no filter, an area
\* whose domain length equals the bound is kept and another area is removed
C16_Witness ==
    /\ appData # Null
    /\ results = ExactlyFiltered(Candidates, filters)
    /\ ActiveFilterKeys(filters) = {"domainLength"}
    /\ filters["sortBy"] # Absent
    /\ Len(results) < Len(Candidates)
    /\ \E i \in DOMAIN results :
           \/ filters["domainLength"].min = Num(Len(results[i].domain))
           \/ filters["domainLength"].max = Num(Len(results[i].domain))

---------------------------------------------------------------------------
(* SpecSelection: the store with its last call recorded, selection included *)

SelectionSetSelectedDomain ==
    \E d \in SelectableDomains :
        /\ setSelectedDomain(d)
        /\ lastCall' = Call("setSelectedDomain", d)
        /\ UNCHANGED componentVars

NextSelection ==
    \/ TwiceSetAppData
    \/ TwiceSetSearchQuery
    \/ TwiceSetFilters
    \/ TwiceClearSearch
    \/ SelectionSetSelectedDomain

SpecSelection == Init /\ [][NextSelection]_vars

\* the step is a call of one of the query and filter operations
QueryOrFilterCall(ops) == lastCall'.op \in ops

\* C17: no query or filter operation (setSearchQuery, setFilters, clearSearch,
\* setAppData) changes selectedDomain
C17_SelectionIndependentOfQuery ==
    [][QueryOrFilterCall({"setSearchQuery", "setFilters", "clearSearch",
                          "setAppData"})
         => selectedDomain' = selectedDomain]_vars

\* the same without clearSearch
C17_SelectionKeptBySearchAndFilters ==
    [][QueryOrFilterCall({"setSearchQuery", "setFilters", "setAppData"})
         => selectedDomain' = selectedDomain]_vars

---------------------------------------------------------------------------
(* SpecPointer: the map under pointer events, with its tooltip             *)

\* part_001 lines 199-201: window.location.reload() starts the page afresh
reload ==
    /\ reloadTimer
    /\ appData' = Null /\ fuse' = Null /\ domainMap' = Null
    /\ query' = <<>> /\ results' = <<>> /\ filters' = NoFilters
    /\ selectedDomain' = Null /\ highlightedAreas' = <<>>
    /\ onlyFiltered' = TRUE /\ showOptions' = FALSE
    /\ htmlMapAreas' = <<>> /\ imageLoaded' = FALSE /\ imageError' = FALSE
    /\ loading' = TRUE /\ error' = Null /\ retryCount' = 0
    /\ isOnline' = navigatorOnLine /\ mounted' = FALSE
    /\ fetches' = EmptyBag /\ timers' = EmptyBag
    /\ outcomes' = <<>> /\ delays' = <<>> /\ interfered' = FALSE
    /\ lastCall' = NoCall
    /\ tooltip' = NoTooltip /\ animationFrame' = Null
    /\ reloadTimer' = FALSE /\ placedFor' = Null /\ lastPointer' = Null
    /\ localFilters' = NoFilters /\ sortBy' = "domain" /\ sortDirection' = "asc"
    /\ UNCHANGED <<navigatorOnLine, viewport, quadVars, debounceVars, asyncVars>>

\* the areas whose region is on the page
RenderedAreas ==
    IF ~render.overlay THEN {}
    ELSE {areasToRender[render.svg[p].source] :
             p \in {q \in DOMAIN render.svg : render.svg[q] # Null}}
         \cup {areasToRender[render.div[p].source] :
                  p \in {q \in DOMAIN render.div : render.div[q] # Null}}

Viewports == {DefaultViewport, Viewport(400, 300)}

PointerEvents ==
    {Pointer(10, 10), Pointer(100, 100), Pointer(645, 600), Pointer(950, 950)}

\* the events of a pointer inside the window
EventsInWindow ==
    {e \in PointerEvents :
        e.clientX < viewport.width /\ e.clientY < viewport.height}

PointerDatasets == {MakeAppData(<<AreaFull, AreaBare>>)}

PointerHtmlMaps == {<<CHOOSE a \in HtmlAreaPool : a.title # <<>> >>}

PointerSetAppData ==
    \E data \in PointerDatasets : setAppData(data) /\ UNCHANGED nonStoreVars

PointerSetHtmlMapAreas ==
    \E parsedAreas \in PointerHtmlMaps : setHtmlMapAreas(parsedAreas)

\* setSelectedDomain from the result list; the effect of part_001 lines
\* 229-233 then hides the tooltip
PointerSetSelectedDomain ==
    \E d \in SelectableDomains :
        /\ setSelectedDomain(d)
        /\ tooltip' = IF d # selectedDomain /\ Truthy(d)
                      THEN [tooltip EXCEPT !.visible = FALSE]
                      ELSE tooltip
        /\ UNCHANGED <<exportVars, mapVars, loaderVars, lastCall, utilVars,
                       animationFrame, viewport, reloadTimer, placedFor,
                   lastPointer>>

HandleAreaHover ==
    \E area \in RenderedAreas, e \in EventsInWindow : handleAreaHover(area, e)

HandleMouseMove == \E e \in EventsInWindow : handleMouseMove(e)

HandleAreaClick == \E area \in RenderedAreas : handleAreaClick(area)

ClickBackground ==
    /\ appData # Null
    /\ \E target \in {"container", "image"} : clickBackground(target)

InitPointer ==
    /\ StoreInit /\ ExportInit /\ MapInit /\ LoaderInit(TRUE) /\ lastCall = NoCall
    /\ \E window \in Viewports : PointerInit(window)
    /\ UtilInit

NextPointer ==
    \/ PointerSetAppData
    \/ PointerSetHtmlMapAreas
    \/ PointerSetSelectedDomain
    \/ onLoad
    \/ HandleAreaHover
    \/ HandleMouseMove
    \/ animationFrameFires
    \/ handleAreaLeave
    \/ HandleAreaClick
    \/ ClickBackground
    \/ reload

SpecPointer == InitPointer /\ [][NextPointer]_vars

---------------------------------------------------------------------------
(* Click and tooltip claims, checked under SpecPointer                     *)

Max(a, b) == IF a >= b THEN a ELSE b

\* C19: with the tooltip placed for a pointer at x, the tooltip's left is
\* x + 15, unless x + 15 + 320 > viewport.width - 20 and then x - 320 - 5,
\* and in either case at least 20
C19_HorizontalPlacement ==
    placedFor # Null =>
        LET x == placedFor.clientX
            left == IF x + 15 + 320 > viewport.width - 20
                    THEN x - 320 - 5
                    ELSE x + 15
        IN getTooltipPosition.left = Max(20, left)

\* what the two stages compute together: an offset of 15 + 5, and a flip to
\* 15 - 320 - 5 from the pointer
C19_HorizontalPlacementAsCoded ==
    placedFor # Null =>
        LET x == placedFor.clientX
            left == IF x + 20 + 320 > viewport.width - 20
                    THEN x - 310
                    ELSE x + 20
        IN getTooltipPosition.left = Max(20, left)

\* C20: with the tooltip placed for a pointer at y, on region enter or on a
\* later move: if y is in the lower half of the viewport or the placement
\* below the pointer would overflow the bottom, the tooltip's top is above
\* the default placement (or held at 20); otherwise it is y - 10; and in
\* either case at least 20
C20_VerticalPlacement ==
    placedFor # Null =>
        LET y == placedFor.clientY
            top == getTooltipPosition.top
            above == \/ 2 * y > viewport.height
                     \/ y + 200 > viewport.height - 20
        IN /\ top >= 20
           /\ IF above THEN top < y - 10 \/ top = 20
              ELSE top = Max(20, y - 10)

\* the lower bound alone
C20_TopAtLeastPadding ==
    placedFor # Null => getTooltipPosition.top >= 20

\* C21: when no animation frame is pending (events stopped, frames run), the
\* position of a visible tooltip is the one computed from the last pointer
\* event, never from an earlier one
C21_LastPointerWins ==
    (animationFrame = Null /\ tooltip.visible) => placedFor = lastPointer

---------------------------------------------------------------------------
(* SpecQuad: the coordinate parsers applied to coords attributes           *)

\* "x1,y1,x2,y2"
Quad(x1, y1, x2, y2) ==
    numberToString(x1) \o <<",">> \o numberToString(y1) \o <<",">>
        \o numberToString(x2) \o <<",">> \o numberToString(y2)

QuadNumbers == {100, 200, 300, 400}

QuadInputs ==
    {Quad(x1, y1, x2, y2) : x1 \in QuadNumbers, y1 \in QuadNumbers,
                            x2 \in QuadNumbers, y2 \in QuadNumbers}
    \cup {a.coords : a \in HtmlAreaPool}
    \cup {<<"1", ",", "2", ",", "3">>}

ReadArea == \E c \in QuadInputs : readArea(c)

InitQuad ==
    /\ StoreInit /\ ExportInit /\ MapInit /\ LoaderInit(TRUE) /\ lastCall = NoCall
    /\ PointerInit(DefaultViewport)
    /\ SearchBoxInit /\ DebounceInit(Num(0)) /\ AsyncInit
    /\ \E c \in QuadInputs : QuadInit(c)

NextQuad ==
    \/ parseQuad
    \/ ReadArea

SpecQuad == InitQuad /\ [][NextQuad]_vars

\* the numbers of a well-formed quad, or <<>>
QuadCorners ==
    LET tokens == split(coordsAttr, ",")
    IN IF Len(tokens) = 4 /\ \A i \in 1..4 : toNumber(tokens[i]) # NaN
       THEN [i \in 1..4 |-> toNumber(tokens[i]).num]
       ELSE <<>>

\* {x: min(x1,x2), y: min(y1,y2), width: |x2-x1|, height: |y2-y1|}
NormalRect(c) ==
    Rect(Min(c[1], c[3]), Min(c[2], c[4]), Abs(c[3] - c[1]), Abs(c[4] - c[2]))

TaggedRect(r) ==
    [x |-> Num(r.x), y |-> Num(r.y), width |-> Num(r.width),
     height |-> Num(r.height)]

\* C22: every parser turns a quad "x1,y1,x2,y2" into {x: min(x1,x2),
\* y: min(y1,y2), width: |x2-x1|, height: |y2-y1|} (the overlay's parser
\* unless it rejects the rectangle), so a quad and the quad with its corners
\* swapped give the same rectangle
C22_QuadToRectangle ==
    (rectangles # Null /\ QuadCorners # <<>>) =>
        /\ rectangles.util = NormalRect(QuadCorners)
        /\ rectangles.overlay \in {NormalRect(QuadCorners), Null}
        /\ rectangles.script = TaggedRect(NormalRect(QuadCorners))

\* the same of the two parsers of the application alone, swap included
C22_RuntimeParsers ==
    (rectangles # Null /\ QuadCorners # <<>>) =>
        LET c == QuadCorners
            swapped == Quad(c[3], c[4], c[1], c[2])
        IN /\ rectangles.util = NormalRect(c)
           /\ rectangles.overlay \in {NormalRect(c), Null}
           /\ (\A i \in 1..4 : c[i] >= 0) =>
                 /\ parseMapCoordinates(swapped) = rectangles.util
                 /\ parseAreaCoordinates([coords |-> swapped, domain |-> <<>>,
                                          title |-> <<>>]) = rectangles.overlay

---------------------------------------------------------------------------
(* Load gate claims, checked under SpecLoad                                *)

\* structural validity: areas is a non-empty array, metadata is an object,
\* metadata.totalAreas is a positive number
StructurallyValid(d) ==
    /\ DOMAIN d = {"areas", "metadata"}
    /\ DOMAIN d.areas = {"list"}
    /\ d.areas.list # <<>>
    /\ DOMAIN d.metadata = {"totalAreas"}
    /\ DOMAIN d.metadata.totalAreas = {"num"}
    /\ d.metadata.totalAreas.num > 0

\* the response is a 200 JSON response that carries a valid document
CarriesValidDocument(response) ==
    /\ response.kind = "response"
    /\ response.status = 200
    /\ response.contentType \in {Str("application/json"),
                                  Str("application/json; charset=utf-8")}
    /\ response.body.json
    /\ StructurallyValid(response.body.data)

\* C23: appData changes only to a document that passes structural
\* validation, and an attempt that ends otherwise leaves appData, the search
\* index and the domain map as they were
C23_LoadGate ==
    [][/\ appData' # appData
          => \E d \in ValidDocuments \cup MalformedDocuments :
                /\ StructurallyValid(d)
                /\ appData' = [areas |-> d.areas.list, metadata |-> d.metadata]
       /\ \A attempt \in Attempts, response \in Responses :
             (fetchSettles(attempt, response) /\ ~CarriesValidDocument(response))
                => UNCHANGED <<appData, fuse, domainMap>>]_vars

\* a dataset is loaded and a later attempt was refused by the validation
C23_Witness ==
    /\ appData # Null
    /\ fuse = [docs |-> appData.areas]
    /\ error \in {Str("Invalid data format: missing or invalid areas array"),
                   Str("No domain data available"),
                   Str("Invalid data format: missing or invalid metadata"),
                   Str("Invalid metadata: totalAreas must be a positive number")}

---------------------------------------------------------------------------
(* Lookup and consistency claims of the store                              *)

\* the first area of the registry with the domain
FirstWithDomain(d) ==
    appData.areas[CHOOSE i \in DOMAIN appData.areas :
                    /\ appData.areas[i].domain = d
                    /\ \A j \in 1..(i - 1) : appData.areas[j].domain # d]

\* C24: for every domain of the dataset, the store's domain map and the
\* overlay's hover lookup both give the first area of the dataset with that
\* domain
C24_LookupReturnsFirst ==
    appData # Null =>
        \A i \in DOMAIN appData.areas :
            LET d == appData.areas[i].domain
            IN /\ domainMap.map[d] = FirstWithDomain(d)
               /\ domainLookupMap[d] = FirstWithDomain(d)

\* both give the last area with the domain
C24_LookupReturnsLast ==
    appData # Null =>
        \A i \in DOMAIN appData.areas :
            LET d == appData.areas[i].domain
                later == {j \in DOMAIN appData.areas : appData.areas[j].domain = d}
                last == appData.areas[CHOOSE j \in later : \A k \in later : k <= j]
            IN domainMap.map[d] = last /\ domainLookupMap[d] = last

\* C25: the search index and the domain map are null exactly when appData is
\* null, and otherwise both were built from the current appData.areas: the
\* index holds these areas, and the map has exactly their domains, each
\* leading to one of these areas with that domain
C25_IndexesOfCurrentDataset ==
    IF appData = Null THEN fuse = Null /\ domainMap = Null
    ELSE /\ fuse # Null /\ domainMap # Null
         /\ fuse.docs = appData.areas
         /\ DOMAIN domainMap.map =
               {appData.areas[i].domain : i \in DOMAIN appData.areas}
         /\ \A d \in DOMAIN domainMap.map :
               \E i \in DOMAIN appData.areas :
                   appData.areas[i] = domainMap.map[d] /\ appData.areas[i].domain = d

\* the dataset was replaced: the results still hold an area of the earlier
\* dataset that the current one lacks
C25_Witness ==
    /\ appData # Null
    /\ fuse # Null
    /\ \E i \in DOMAIN results :
           \A j \in DOMAIN appData.areas : appData.areas[j] # results[i]

---------------------------------------------------------------------------
(* Loader scheduling claims, checked under SpecLoad                        *)

\* C27: at any time at most one fetch attempt of the dataset is in flight or
\* scheduled by a backoff timer
C27_OneAttemptAtATime == BagSize(fetches) + BagSize(timers) <= 1

\* C28: immediately after an attempt ends with success (setAppData was
\* called), error is null and loading is false, whatever offline and online
\* events came before
C28_SuccessClearsError ==
    [][\A attempt \in Attempts, d \in ValidDocuments :
          fetchSettles(attempt, JsonResponse(Json(d)))
             => (error' = Null /\ loading' = FALSE)]_vars

---------------------------------------------------------------------------
(* SpecSearchBox: the filter panel and the store                           *)

\* lines 247-301: what the selects and the checkbox of the panel pass
PanelChoices ==
    {<<"dnsStatus", Undefined>>, <<"dnsStatus", Str("NOERROR")>>,
     <<"whoisStatus", Undefined>>, <<"whoisStatus", Str("registered")>>,
     <<"hasAnalytics", Undefined>>, <<"hasAnalytics", Bool(TRUE)>>}

\* lines 188-204
SortOptions == {"domain", "http_status", "registered_date"}

BoxSetAppData ==
    \E data \in FilterDatasets : setAppData(data) /\ UNCHANGED nonStoreVars

HandleFilterChange == \E c \in PanelChoices : handleFilterChange(c[1], c[2])

HandleSortChange == \E s \in SortOptions : handleSortChange(s)

NextSearchBox ==
    \/ BoxSetAppData
    \/ HandleFilterChange
    \/ HandleSortChange
    \/ clearFilters
    \/ clickClearSearch

SpecSearchBox == Init /\ [][NextSearchBox]_vars

\* the filters an object applies: a key set to undefined applies none, as a
\* key that is not there
Applied(fs) == [k \in FilterKeys |-> IF fs[k] = Undefined THEN Absent ELSE fs[k]]

\* C29: after any sequence of handleFilterChange, clearFilters and the
\* store's clearSearch, the localFilters of SearchBox equal the filters of
\* the store
C29_PanelShowsApplied == Applied(localFilters) = Applied(filters)

---------------------------------------------------------------------------
(* SpecAsync: useAsyncOperation with its operations and timers             *)

\* what an operation resolves with, and what it throws
AsyncResults == {Num(1), Num(2)}
AsyncThrown == {Error("boom"), Str("boom")}

Execute == \E withTimeout \in BOOLEAN : execute(withTimeout)

AbortFires == \E i \in 0..MaxTimers : abortFires(i)

OperationResolves ==
    \E i \in 1..MaxTimers, result \in AsyncResults : operationResolves(i, result)

OperationRejects ==
    \E i \in 1..MaxTimers, thrown \in AsyncThrown : operationRejects(i, thrown)

NextAsync ==
    \/ Execute
    \/ progressTick
    \/ AbortFires
    \/ OperationResolves
    \/ clearTimerFires
    \/ OperationRejects
    \/ reset

SpecAsync == Init /\ [][NextAsync]_vars

\* the state a rejection leaves
FailedState ==
    /\ state.isLoading = FALSE
    /\ state.progress = 0
    /\ state.error # Undefined

\* C30: when the operation of an execute rejects, the state becomes
\* isLoading false, progress 0 and the error; with no other execute pending
\* and no timer of a success left, it stays so until the next execute or
\* reset; and every running progress interval and abort timeout belongs to an
\* execute whose operation has not settled
C30_FailedExecuteSettles ==
    /\ [](/\ progressIntervals = Len(operations)
          /\ abortTimers = Cardinality({j \in DOMAIN operations : operations[j].abort}))
    /\ [][/\ OperationRejects => FailedState'
          /\ (FailedState /\ operations = <<>> /\ clearTimers = 0
                 /\ ~Execute /\ ~reset) => state' = state]_vars

---------------------------------------------------------------------------
(* SpecDebounce: useDebounce and createDebouncedSearch with their timers   *)

DebounceValues == {Num(0), Num(1), Num(2)}

SearchArgs == {List(<<Str("a")>>), List(<<Str("a"), Str("b")>>)}

ValueChanges == \E v \in DebounceValues : valueChanges(v)

DebouncedSearch == \E args \in SearchArgs : debouncedSearch(args)

NextDebounce ==
    \/ ValueChanges
    \/ handlerFires
    \/ DebouncedSearch
    \/ searchTimerFires

SpecDebounce == Init /\ [][NextDebounce]_vars

\* a timer that is set fires once its delay has passed, unless it is cleared
SpecDebounceFair ==
    SpecDebounce /\ WF_vars(handlerFires) /\ WF_vars(searchTimerFires)

====
